---------------------------- MODULE Spec2Model ----------------------------
(***************************************************************************)
(* Model of the container statistics provider of                           *)
(* pkg/util/pod/stats/cri_stats_provider.go (criStatsProvider): the CPU    *)
(* rate cache, its eviction sweep, the pod and container dedup filters and *)
(* the listPodStats pass.                                                  *)
(*                                                                         *)
(* Representation.                                                         *)
(*  - A Go pointer is a sequence of length at most one: Nil is the nil     *)
(*    pointer and Ptr(v) points to v.                                      *)
(*  - Timestamps (int64 nanoseconds in the code) are multiples of 2^10 ns  *)
(*    and are held as that multiple (a "tick" of 1024 ns), so that ten     *)
(*    minutes (6 * 10^11 ns) is the integer 10 * 60 * 5^9 / 2 and fits the *)
(*    model checker's integers.  Cumulative CPU counters are plain         *)
(*    nanoseconds.                                                         *)
(*  - float64 arithmetic is IEEE-754 binary64 with round-to-nearest-even,  *)
(*    computed on bit sequences (most significant bit first).              *)
(***************************************************************************)
EXTENDS Integers, Sequences, FiniteSets, TLC

VARIABLES
    cpuUsageCache,  \* criStatsProvider.cpuUsageCache: container id -> *cpuUsageRecord
    now,            \* the wall clock (time.Now), in ticks
    op,             \* the operation that ran last
    arg,            \* its input
    pre,            \* cpuUsageCache when it started
    ret,            \* what it returned
    fetched,        \* the upstream fetches it issued, in order
    mutex,          \* criStatsProvider.mutex: [w, readerCount]
    pc,             \* where each concurrent caller of the rate cache is
    saveTask,       \* the GuestSaveGuestImageTask: its stage, its params and the calls it made
    guest,          \* the guest of the task: its status and the start tasks launched for it
    diskTask,       \* the SDiskBaseTask: its pending usage and the calls it made
    jobs,           \* devtool_cronjobs_tbl: job id -> SCronjob
    registry,       \* DevToolCronManager: the registered jobs, in the order of registration
    loader          \* the goroutine of InitializeCronjobs

vars == <<cpuUsageCache, now, op, arg, pre, ret, fetched, mutex, pc,
         saveTask, guest, diskTask, jobs, registry, loader>>

\* The variables of the stats provider, of the tasks and of the cronjobs
statsVars == <<cpuUsageCache, now, op, arg, pre, ret, fetched, mutex, pc>>

taskVars == <<saveTask, guest, diskTask>>

cronVars == <<jobs, registry, loader>>

-----------------------------------------------------------------------------
(* Pointers *)

Nil == <<>>

Ptr(v) == <<v>>

Deref(p) == p[1]

\* No GuestSaveGuestImageTask and no SDiskBaseTask runs
NoTasks ==
    /\ saveTask = Nil
    /\ guest = Nil
    /\ diskTask = Nil

\* The devtool service is not started
NoCronjobs ==
    /\ jobs = Nil
    /\ registry = Nil
    /\ loader = Nil

\* getUint64Value: the pointee, 0 for nil
getUint64Value(p) == IF p = Nil THEN 0 ELSE Deref(p)

-----------------------------------------------------------------------------
(* Units *)

\* log2 of the nanoseconds in one tick
TickShift == 10

\* float64(time.Second/time.Nanosecond) = 10^9
NanosPerSecond == 1000000000

\* time.Minute in ticks: 60 * 10^9 / 2^10
Minute == 30 * 1953125

\* defaultCachePeriod = 10 * time.Minute
defaultCachePeriod == 10 * Minute

-----------------------------------------------------------------------------
(* IEEE-754 binary64, on bit sequences (most significant bit first).       *)
(* A positive float64 is [m |-> 53 bits with m[1] = 1, e |-> exponent],    *)
(* its value m * 2^e; FloatZero is 0.0.                                    *)

MantissaBits == 53

FloatZero == [m |-> <<>>, e |-> 0]

Min(S) == CHOOSE x \in S : \A y \in S : x <= y

Max(S) == CHOOSE x \in S : \A y \in S : x >= y

\* Number of binary digits of a natural below 2^31
BitLen(n) == Cardinality({k \in 0..30 : 2^k <= n})

NatToBits(n) == [i \in 1..BitLen(n) |-> (n \div 2^(BitLen(n) - i)) % 2]

RECURSIVE BitsToNat(_)
BitsToNat(b) ==
    IF b = <<>> THEN 0
    ELSE IF Len(b) = 1 THEN b[1]
    ELSE LET h == Len(b) \div 2
         IN  BitsToNat(SubSeq(b, 1, h)) * 2^(Len(b) - h)
                 + BitsToNat(SubSeq(b, h + 1, Len(b)))

StripZeros(b) ==
    LET ones == {i \in 1..Len(b) : b[i] = 1}
    IN  IF ones = {} THEN <<>> ELSE SubSeq(b, Min(ones), Len(b))

Zeros(n) == [i \in 1..n |-> 0]

\* b + 1 on a bit sequence, one bit longer when it carries out
BitsInc(b) ==
    LET zeros == {i \in 1..Len(b) : b[i] = 0}
    IN  IF zeros = {} THEN <<1>> \o Zeros(Len(b))
        ELSE SubSeq(b, 1, Max(zeros) - 1) \o <<1>> \o Zeros(Len(b) - Max(zeros))

\* Round the positive number bits * 2^e (bits[1] = 1, at least 53 bits), with
\* sticky telling that non-zero digits follow the given ones, to 53 bits:
\* to nearest, ties to even.
RoundToFloat(bits, e, sticky) ==
    LET L     == Len(bits)
        m     == SubSeq(bits, 1, MantissaBits)
        rest  == SubSeq(bits, MantissaBits + 1, L)
        guard == rest # <<>> /\ rest[1] = 1
        tail  == sticky \/ \E i \in 2..Len(rest) : rest[i] = 1
        up    == guard /\ (tail \/ m[MantissaBits] = 1)
        m1    == IF up THEN BitsInc(m) ELSE m
    IN  IF Len(m1) > MantissaBits
        THEN [m |-> SubSeq(m1, 1, MantissaBits), e |-> e + (L - MantissaBits) + 1]
        ELSE [m |-> m1, e |-> e + (L - MantissaBits)]

\* Long division by n of the number written by the bits of dividend, entered
\* with the running remainder r: the quotient's bits (as many as the
\* dividend's) and the final remainder.  The dividend is split in halves to
\* keep the recursion shallow.
RECURSIVE LongDiv(_, _, _)
LongDiv(dividend, n, r) ==
    IF dividend = <<>> THEN [q |-> <<>>, r |-> r]
    ELSE IF Len(dividend) = 1
    THEN LET r1 == 2 * r + dividend[1]
         IN  IF r1 >= n THEN [q |-> <<1>>, r |-> r1 - n]
                        ELSE [q |-> <<0>>, r |-> r1]
    ELSE LET h     == Len(dividend) \div 2
             left  == LongDiv(SubSeq(dividend, 1, h), n, r)
             right == LongDiv(SubSeq(dividend, h + 1, Len(dividend)), n, left.r)
         IN  [q |-> left.q \o right.q, r |-> right.r]

\* float64(d) / float64(n * 2^shift) for naturals d and n >= 1 below 2^30
\* (float64 holds them exactly): the quotient d / n rounded once, scaled by
\* a power of two.  The division carries enough fraction bits for 53
\* significant bits and a guard bit; the remainder is the sticky bit.
Float64Div(d, n, shift) ==
    IF d = 0 THEN FloatZero
    ELSE LET F  == MantissaBits + 1 + BitLen(n)
             dv == LongDiv(NatToBits(d) \o Zeros(F), n, 0)
         IN  RoundToFloat(StripZeros(dv.q), 0 - F - shift, dv.r # 0)

Reverse(s) == [i \in 1..Len(s) |-> s[Len(s) + 1 - i]]

\* The number written by the bits of b, least significant first, times c plus
\* carry, for 0 <= carry < c <= 10^9: the low Len(b) bits of the product,
\* least significant first, and what carries out of them.
RECURSIVE MulBits(_, _, _)
MulBits(b, c, carry) ==
    IF b = <<>> THEN [p |-> <<>>, carry |-> carry]
    ELSE IF Len(b) = 1
    THEN [p |-> <<(b[1] * c + carry) % 2>>, carry |-> (b[1] * c + carry) \div 2]
    ELSE LET h    == Len(b) \div 2
             low  == MulBits(SubSeq(b, 1, h), c, carry)
             high == MulBits(SubSeq(b, h + 1, Len(b)), c, low.carry)
         IN  [p |-> low.p \o high.p, carry |-> high.carry]

\* f * float64(c) for a natural 1 <= c <= 10^9
Float64Mul(f, c) ==
    IF f.m = <<>> THEN FloatZero
    ELSE LET pr == MulBits(Reverse(f.m), c, 0)
         IN  RoundToFloat(StripZeros(NatToBits(pr.carry) \o Reverse(pr.p)),
                          f.e, FALSE)

\* uint64(f): truncation toward zero (of values below 2^31)
Uint64OfFloat(f) ==
    IF f.m = <<>> \/ MantissaBits + f.e <= 0 THEN 0
    ELSE BitsToNat(SubSeq(f.m, 1, MantissaBits + f.e))

-----------------------------------------------------------------------------
(* The rate cache.                                                         *)
(*   runtimeapi.CpuUsage   [Timestamp, UsageCoreNanoSeconds: *UInt64Value] *)
(*   runtimeapi.ContainerStats  [Attributes: *[Id], Cpu: *CpuUsage]        *)
(*   cpuUsageRecord        [stats: *CpuUsage, usageNanoCores: *uint64]     *)
(*   cpuUsageCache         a function from container ids to *cpuUsageRecord*)

\* make(map[string]*cpuUsageRecord)
EmptyCache == [k \in {} |-> Nil]

\* p.cpuUsageCache[id] = rec
MapSet(cache, id, rec) ==
    [k \in DOMAIN cache \cup {id} |-> IF k = id THEN rec ELSE cache[k]]

\* delete(p.cpuUsageCache, k) for every k of keys
MapDelete(cache, keys) == [k \in DOMAIN cache \ keys |-> cache[k]]

\* A rate without the scaling to one second
usageCoresOf(deltaUsage, ticks) ==
    Uint64OfFloat(Float64Div(deltaUsage, ticks, TickShift))

\* uint64(float64(newUsage - cachedUsage) / float64(nanoSeconds)
\*            * float64(time.Second/time.Nanosecond)),
\* nanoSeconds being ticks * 2^TickShift
usageNanoCoresOf(deltaUsage, ticks) ==
    Uint64OfFloat(Float64Mul(Float64Div(deltaUsage, ticks, TickShift),
                             NanosPerSecond))

\* A lookup that reports a rate of zero for an entry without a rate
getContainerUsageNanoCoresOrZero(cache, stats) ==
    IF stats = Nil \/ Deref(stats).Attributes = Nil
    THEN [usage |-> Nil, cache |-> cache]
    ELSE LET id == Deref(Deref(stats).Attributes).Id
         IN  IF id \notin DOMAIN cache
             THEN [usage |-> Nil, cache |-> cache]
             ELSE [usage |-> Ptr(getUint64Value(Deref(cache[id]).usageNanoCores)),
                   cache |-> cache]

\* getContainerUsageNanoCores gets the cached usageNanoCores: what it returns
\* and the cache it leaves.
getContainerUsageNanoCores(cache, stats) ==
    IF stats = Nil \/ Deref(stats).Attributes = Nil
    THEN [usage |-> Nil, cache |-> cache]
    ELSE LET id == Deref(Deref(stats).Attributes).Id
         IN  IF id \notin DOMAIN cache \/ Deref(cache[id]).usageNanoCores = Nil
             THEN [usage |-> Nil, cache |-> cache]
             ELSE [usage |-> Ptr(Deref(Deref(cache[id]).usageNanoCores)),
                   cache |-> cache]

\* A baseline that carries the rate of the entry it replaces
baselineKeepingRate(cache, id, cpu) ==
    [usage |-> Nil,
     cache |-> MapSet(cache, id,
                      Ptr([stats |-> cpu,
                           usageNanoCores |->
                               IF id \in DOMAIN cache
                               THEN Deref(cache[id]).usageNanoCores ELSE Nil])),
     err   |-> Nil]

\* "Cannot compute the usage now, but update the cached stats anyway"
baseline(cache, id, cpu) ==
    [usage |-> Nil,
     cache |-> MapSet(cache, id, Ptr([stats |-> cpu, usageNanoCores |-> Nil])),
     err   |-> Nil]

\* An interval check that stores the sample as the new baseline
badIntervalStoringSample(cache, id, cpu) ==
    [usage |-> Nil,
     cache |-> MapSet(cache, id, Ptr([stats |-> cpu, usageNanoCores |-> Nil])),
     err   |-> Ptr("zero or negative interval")]

\* nanoSeconds <= 0: the error is returned and logged, the cache is not touched
badInterval(cache, id, cpu) ==
    [usage |-> Nil, cache |-> cache, err |-> Ptr("zero or negative interval")]

\* The sample of every record that has CPU info is stored, whether or not it
\* carries a cumulative counter
storeSample(cache, stats) ==
    IF \/ stats = Nil
       \/ Deref(stats).Attributes = Nil
       \/ Deref(stats).Cpu = Nil
    THEN [usage |-> Nil, cache |-> cache, err |-> Nil]
    ELSE baseline(cache, Deref(Deref(stats).Attributes).Id, Deref(stats).Cpu)

\* getAndUpdateContainerUsageNanoCores: what it returns, the cache it leaves
\* and the error it logs.
getAndUpdateContainerUsageNanoCores(cache, stats) ==
    IF \/ stats = Nil
       \/ Deref(stats).Attributes = Nil
       \/ Deref(stats).Cpu = Nil
       \/ Deref(Deref(stats).Cpu).UsageCoreNanoSeconds = Nil
    THEN [usage |-> Nil, cache |-> cache, err |-> Nil]
    ELSE LET id       == Deref(Deref(stats).Attributes).Id
             newStats == Deref(Deref(stats).Cpu)
             newUsage == Deref(newStats.UsageCoreNanoSeconds)
         IN  IF \/ id \notin DOMAIN cache
                \/ Deref(Deref(cache[id]).stats).UsageCoreNanoSeconds = Nil
                \/ newUsage < Deref(Deref(Deref(cache[id]).stats).UsageCoreNanoSeconds)
             THEN baseline(cache, id, Deref(stats).Cpu)
             ELSE LET cachedStats == Deref(Deref(cache[id]).stats)
                      nanoSeconds == newStats.Timestamp - cachedStats.Timestamp
                  IN  IF nanoSeconds <= 0
                      THEN badInterval(cache, id, Deref(stats).Cpu)
                      ELSE LET usageNanoCores ==
                                   usageNanoCoresOf(
                                       newUsage - Deref(cachedStats.UsageCoreNanoSeconds),
                                       nanoSeconds)
                           IN  [usage |-> Ptr(usageNanoCores),
                                cache |-> MapSet(cache, id,
                                                 Ptr([stats |-> Deref(stats).Cpu,
                                                      usageNanoCores |-> Ptr(usageNanoCores)])),
                                err   |-> Nil]

\* A sweep that deletes only the nil records
cleanupNilRecords(cache, t) ==
    {[cache |-> MapDelete(cache, {k \in DOMAIN cache : cache[k] = Nil}),
      panic |-> FALSE]}

\* cleanupOutdatedCaches at wall-clock time t.  The range loop visits the
\* entries in an unspecified order and dereferences v.stats of every non-nil
\* record: a record with nil stats makes it panic, after deleting any of the
\* entries it was to delete.  The set of the outcomes.
cleanupOutdatedCaches(cache, t) ==
    LET nilStats == {k \in DOMAIN cache :
                        cache[k] # Nil /\ Deref(cache[k]).stats = Nil}
        toDelete == {k \in DOMAIN cache \ nilStats :
                        \/ cache[k] = Nil
                        \/ t - Deref(Deref(cache[k]).stats).Timestamp
                               > defaultCachePeriod}
    IN  IF nilStats = {}
        THEN {[cache |-> MapDelete(cache, toDelete), panic |-> FALSE]}
        ELSE {[cache |-> MapDelete(cache, done), panic |-> TRUE] :
                  done \in SUBSET toDelete}

-----------------------------------------------------------------------------
(* The dedup filters.                                                      *)
(*   runtimeapi.PodSandbox [Id, Metadata: [Name, Uid, Namespace], State,   *)
(*                          CreatedAt]                                     *)
(*   runtimeapi.Container  [Id, PodSandboxId, Labels, State, CreatedAt]    *)

SANDBOX_READY == "SANDBOX_READY"

SANDBOX_NOTREADY == "SANDBOX_NOTREADY"

CONTAINER_CREATED == "CONTAINER_CREATED"

CONTAINER_RUNNING == "CONTAINER_RUNNING"

CONTAINER_EXITED == "CONTAINER_EXITED"

\* The elements of a sequence
Range(s) == {s[i] : i \in 1..Len(s)}

\* The orderings of a finite set
Orderings(S) ==
    {f \in [1..Cardinality(S) -> S] : \A i, j \in 1..Cardinality(S) :
                                          f[i] = f[j] => i = j}

\* sort.Slice(items, func(i, j) { return items[i].CreatedAt < items[j].CreatedAt }):
\* the sort is not stable, so every rearrangement in which CreatedAt never
\* decreases is a possible outcome.
SortByCreatedAt(items) ==
    {[i \in 1..Len(items) |-> items[f[i]]] :
        f \in {g \in Orderings(1..Len(items)) :
                  \A i, j \in 1..Len(items) :
                      i < j => items[g[i]].CreatedAt <= items[g[j]].CreatedAt}}

RECURSIVE Flatten(_)
Flatten(ss) == IF ss = <<>> THEN <<>> ELSE Head(ss) \o Flatten(Tail(ss))

\* The key of podMap: the PodReference with the UID left empty
podRefID(pod) ==
    [Name |-> pod.Metadata.Name, Namespace |-> pod.Metadata.Namespace, UID |-> ""]

\* podMap[refID], for the slice sorted by creation time
podRefs(sorted, refID) == SelectSeq(sorted, LAMBDA pod : podRefID(pod) = refID)

\* A fallback to the oldest sandbox of the group
keptPodsOldest(refs) ==
    IF Len(refs) = 1 THEN <<refs[1]>>
    ELSE IF SelectSeq(refs, LAMBDA pod : pod.State = SANDBOX_READY) # <<>>
    THEN SelectSeq(refs, LAMBDA pod : pod.State = SANDBOX_READY)
    ELSE <<refs[1]>>

\* What the loop over podMap appends for one group
keptPods(refs) ==
    IF Len(refs) = 1 THEN <<refs[1]>>
    ELSE IF SelectSeq(refs, LAMBDA pod : pod.State = SANDBOX_READY) # <<>>
    THEN SelectSeq(refs, LAMBDA pod : pod.State = SANDBOX_READY)
    ELSE <<refs[Len(refs)]>>

\* removeTerminatedPods: the possible results, one for every outcome of the
\* sort and every order in which the range over podMap visits the groups.
removeTerminatedPods(pods) ==
    {Flatten([i \in 1..Len(order) |-> keptPods(podRefs(sorted, order[i]))]) :
        sorted \in SortByCreatedAt(pods),
        order \in Orderings({podRefID(pod) : pod \in Range(pods)})}

\* buildPodRef: the pod reference of a container's labels, without the UID
buildPodRef(labels) ==
    [Name |-> labels.PodName, Namespace |-> labels.PodNamespace, UID |-> ""]

\* GetContainerName: the container name of a container's labels
GetContainerName(labels) == labels.ContainerName

\* The key of containerMap
containerRefID(container) ==
    [podRef        |-> buildPodRef(container.Labels),
     containerName |-> GetContainerName(container.Labels)]

\* containerMap[refID], for the slice sorted by creation time
containerRefs(sorted, refID) ==
    SelectSeq(sorted, LAMBDA c : containerRefID(c) = refID)

\* A filter that falls back to the latest container of a group, as the pod
\* filter does
keptContainersOrLatest(refs) ==
    IF SelectSeq(refs, LAMBDA c : c.State = CONTAINER_RUNNING) # <<>>
    THEN SelectSeq(refs, LAMBDA c : c.State = CONTAINER_RUNNING)
    ELSE <<refs[Len(refs)]>>

\* What the loop over containerMap appends for one group
keptContainers(refs) == SelectSeq(refs, LAMBDA c : c.State = CONTAINER_RUNNING)

\* removeTerminatedContainers: the possible results
removeTerminatedContainers(containers) ==
    {Flatten([i \in 1..Len(order) |->
                 keptContainers(containerRefs(sorted, order[i]))]) :
        sorted \in SortByCreatedAt(containers),
        order \in Orderings({containerRefID(c) : c \in Range(containers)})}

-----------------------------------------------------------------------------
(* The pass.                                                               *)
(*   PodStats        [PodRef, StartTime, Containers, CPU, Memory, DiskIo,  *)
(*                    ProcessStats]                                        *)
(*   ContainerStats  [Name, StartTime, CPU, Memory, DiskIo, ProcessStats]  *)
(*   CPUStats        [Time, UsageCoreNanoSeconds, UsageNanoCores: *uint64] *)
(*   MemoryStats     [Time, AvailableBytes, UsageBytes, WorkingSetBytes,   *)
(*                    RSSBytes, PageFaults, MajorPageFaults: *uint64]      *)
(*   ProcessStats    [ProcessCount, FdCount, SocketCount, ThreadsCurrent,  *)
(*                    ThreadsMax: uint64]                                  *)
(*   DiskIoStats     device -> bytes (a nil map is the empty map)          *)
(* The infos of the accounting subsystem (cadvisor) are a map from a       *)
(* cgroup path [Dir, Base, Mount] (Dir/Base, with the suffix ".mount" when *)
(* Mount) to a ContainerInfo [PodManaged, Stats], Stats being the history  *)
(* of the cgroup, latest last:                                             *)
(*   [Timestamp, Cpu: *[Total], CpuInst: *[Total],                         *)
(*    Memory: *[Usage, WorkingSet, RSS, Pgfault, Pgmajfault],              *)
(*    Processes: *ProcessStats, DiskIo: device -> bytes]                   *)
(* Network stats, root filesystem stats and user defined metrics are left  *)
(* out of the records.                                                     *)

\* metav1.NewTime(time.Unix(0, nsec))
NewTime(nsec) == [UnixNano |-> nsec]

\* The upstream fetches of listPodStats, in the order of the code
listPodStatsFetches ==
    <<"RootFsInfo", "ListContainers", "ListPodSandbox", "ListContainerStats",
      "getCadvisorContainerInfo", "listContainerNetworkStats">>

\* The upstream fetches of ListPodCPUAndMemoryStats, in the order of the code
listPodCPUAndMemoryStatsFetches ==
    <<"ListContainers", "ListPodSandbox", "ListContainerStats",
      "getCadvisorContainerInfo">>

\* Fetches that are all issued, the first error being reported at the end
issueAllFetches(order, failing) ==
    LET failed == {i \in 1..Len(order) : order[i] \in failing}
    IN  [fetched |-> order,
         err     |-> IF failed = {} THEN Nil ELSE Ptr(order[Min(failed)])]

\* Only the failure of one of the four listings ends the pass
issueFetchesOfListings(order, failing) ==
    LET failed == {i \in 1..Len(order) :
                      /\ order[i] \in failing
                      /\ order[i] \in {"ListContainers", "ListPodSandbox",
                                       "ListContainerStats",
                                       "getCadvisorContainerInfo"}}
    IN  IF failed = {}
        THEN [fetched |-> order, err |-> Nil]
        ELSE [fetched |-> SubSeq(order, 1, Min(failed)),
              err     |-> Ptr(order[Min(failed)])]

\* The fetches issued one after the other, each followed by
\* "if err != nil { return nil, ... }": what was issued, and the error
issueFetches(order, failing) ==
    LET failed == {i \in 1..Len(order) : order[i] \in failing}
    IN  IF failed = {}
        THEN [fetched |-> order, err |-> Nil]
        ELSE [fetched |-> SubSeq(order, 1, Min(failed)),
              err     |-> Ptr(order[Min(failed)])]

\* The latest stats of a ContainerInfo, nil when its history is empty
latestContainerStats(info) ==
    IF info.Stats = <<>> THEN Nil ELSE Ptr(info.Stats[Len(info.Stats)])

\* The info of the pod cgroup of podUID, nil when allInfos has none
getCadvisorPodInfoFromPodUID(podUID, allInfos) ==
    LET keys == {k \in DOMAIN allInfos :
                    k.Dir = "kubepods" /\ k.Base = podUID /\ ~k.Mount}
    IN  IF keys = {} THEN Nil ELSE Ptr(allInfos[CHOOSE k \in keys : TRUE])

\* The latest stats of the cgroup of the container id, nil when allInfos has
\* no such cgroup or no stats of it
getLatestContainerStatsById(id, allInfos) ==
    LET keys == {k \in DOMAIN allInfos :
                    k.Dir # "kubepods" /\ k.Base = id /\ ~k.Mount}
    IN  IF keys = {} THEN Nil
        ELSE latestContainerStats(allInfos[CHOOSE k \in keys : TRUE])

\* getCRICadvisorStats: the infos of the containers that a pod manages, by
\* the last element of their cgroup path; ".mount" units are ignored
getCRICadvisorStats(infos) ==
    LET keys == {k \in DOMAIN infos : ~k.Mount /\ infos[k].PodManaged}
    IN  [base \in {k.Base : k \in keys} |->
            infos[CHOOSE k \in keys : k.Base = base]]

\* cadvisorInfoToCPUandMemoryStats: the CPU and memory stats of the latest
\* stats of an info, both nil when the info has no stats
cadvisorInfoToCPUandMemoryStats(info) ==
    LET latest == latestContainerStats(info)
        cstat  == Deref(latest)
    IN  IF latest = Nil THEN [cpu |-> Nil, memory |-> Nil]
        ELSE [cpu |->
                 Ptr([Time |-> NewTime(cstat.Timestamp),
                      UsageCoreNanoSeconds |->
                          IF cstat.Cpu = Nil THEN Ptr(0)
                          ELSE Ptr(Deref(cstat.Cpu).Total),
                      UsageNanoCores |->
                          IF cstat.CpuInst = Nil THEN Ptr(0)
                          ELSE Ptr(Deref(cstat.CpuInst).Total)]),
              memory |->
                 IF cstat.Memory = Nil
                 THEN Ptr([Time |-> NewTime(cstat.Timestamp),
                           AvailableBytes |-> Nil, UsageBytes |-> Nil,
                           WorkingSetBytes |-> Ptr(0), RSSBytes |-> Nil,
                           PageFaults |-> Nil, MajorPageFaults |-> Nil])
                 ELSE LET m == Deref(cstat.Memory)
                      IN  Ptr([Time |-> NewTime(cstat.Timestamp),
                               AvailableBytes |-> Nil,
                               UsageBytes |-> Ptr(m.Usage),
                               WorkingSetBytes |-> Ptr(m.WorkingSet),
                               RSSBytes |-> Ptr(m.RSS),
                               PageFaults |-> Ptr(m.Pgfault),
                               MajorPageFaults |-> Ptr(m.Pgmajfault)])]

\* convertToProcessStats
convertToProcessStats(cStats) ==
    IF cStats = Nil THEN Nil
    ELSE Ptr([ProcessCount   |-> Deref(cStats).ProcessCount,
              FdCount        |-> Deref(cStats).FdCount,
              SocketCount    |-> Deref(cStats).SocketCount,
              ThreadsCurrent |-> Deref(cStats).ThreadsCurrent,
              ThreadsMax     |-> Deref(cStats).ThreadsMax])

\* convertToDiskIoStats: the counters of the devices
convertToDiskIoStats(diskIo) == diskIo

\* cadvisorInfoToProcessStats: the process stats of the latest stats
cadvisorInfoToProcessStats(info) ==
    LET latest == latestContainerStats(info)
    IN  IF latest = Nil THEN Nil
        ELSE convertToProcessStats(Deref(latest).Processes)

\* cadvisorInfoToDiskIoStats: the disk I/O stats of the latest stats
cadvisorInfoToDiskIoStats(info) ==
    LET latest == latestContainerStats(info)
    IN  IF latest = Nil THEN Nil
        ELSE convertToDiskIoStats(Deref(latest).DiskIo)

\* DiskIoStats.Add: the counters of other are added, device by device
DiskIoAdd(diskIo, other) ==
    [dev \in DOMAIN diskIo \cup DOMAIN other |->
        (IF dev \in DOMAIN diskIo THEN diskIo[dev] ELSE 0)
            + (IF dev \in DOMAIN other THEN other[dev] ELSE 0)]

\* A PodStats that identifies its pod without the UID
buildPodStatsWithoutUID(podSandbox) ==
    [PodRef       |-> [Name      |-> podSandbox.Metadata.Name,
                       UID       |-> "",
                       Namespace |-> podSandbox.Metadata.Namespace],
     StartTime    |-> NewTime(podSandbox.CreatedAt),
     Containers   |-> <<>>,
     CPU          |-> Nil,
     Memory       |-> Nil,
     DiskIo       |-> Nil,
     ProcessStats |-> Nil]

\* buildPodStats
buildPodStats(podSandbox) ==
    [PodRef       |-> [Name      |-> podSandbox.Metadata.Name,
                       UID       |-> podSandbox.Metadata.Uid,
                       Namespace |-> podSandbox.Metadata.Namespace],
     StartTime    |-> NewTime(podSandbox.CreatedAt),
     Containers   |-> <<>>,
     CPU          |-> Nil,
     Memory       |-> Nil,
     DiskIo       |-> Nil,
     ProcessStats |-> Nil]

\* A failed GetDirFsInfo gives the info of an empty filesystem
getFsInfoOrEmpty(dirFsInfo, fsID) ==
    IF fsID = Nil THEN Nil
    ELSE IF Deref(fsID).Mountpoint \notin DOMAIN dirFsInfo
            \/ dirFsInfo[Deref(fsID).Mountpoint] = Nil
    THEN Ptr([Available |-> 0, Capacity |-> 0,
              InodesFree |-> Ptr(0), Inodes |-> Ptr(0)])
    ELSE dirFsInfo[Deref(fsID).Mountpoint]

\* getFsInfo: the info of the filesystem of fsID, nil when fsID is nil or
\* when GetDirFsInfo returns an error.  dirFsInfo is what GetDirFsInfo
\* answers for a mountpoint: the info, or nil with an error; a mountpoint it
\* does not know is an error
getFsInfo(dirFsInfo, fsID) ==
    IF fsID = Nil THEN Nil
    ELSE IF Deref(fsID).Mountpoint \notin DOMAIN dirFsInfo THEN Nil
    ELSE dirFsInfo[Deref(fsID).Mountpoint]

\* getFsInfo is called for every record that has a filesystem identifier
lookupAlways(fsIDtoInfo, fsID) == FALSE

\* "imageFsInfo, found := fsIDtoInfo[*fsID]": whether the pass has looked
\* the filesystem identifier up already
lookedUp(fsIDtoInfo, fsID) == Deref(fsID) \in DOMAIN fsIDtoInfo

\* makeContainerStats: the container's stats, the cache and the table
\* fsIDtoInfo it leaves, the mountpoints it queried GetDirFsInfo for, and
\* whether it dereferences the nil Metadata of the record's attributes
makeContainerStats(cache, dirFsInfo, stats, container, fsIDtoInfo, updateCPUNanoCoreUsage, infos, t) ==
    IF Deref(Deref(stats).Attributes).Metadata = Nil
    THEN [cs |-> Nil, cache |-> cache, fsIDtoInfo |-> fsIDtoInfo,
          queried |-> <<>>, panic |-> TRUE]
    ELSE LET name   == Deref(Deref(Deref(stats).Attributes).Metadata).Name
             cStats == getLatestContainerStatsById(
                           Deref(Deref(stats).Attributes).Id, infos)
             layer  == Deref(stats).WritableLayer
             fsID   == IF layer = Nil THEN Nil ELSE Deref(layer).FsId
             found  == fsID # Nil /\ lookedUp(fsIDtoInfo, fsID)
             made(r, imageFsInfo) ==
                 LET cpu    == IF Deref(stats).Cpu # Nil
                               THEN [Time |-> NewTime(Deref(Deref(stats).Cpu).Timestamp),
                                     UsageCoreNanoSeconds |->
                                         Deref(Deref(stats).Cpu).UsageCoreNanoSeconds,
                                     UsageNanoCores |-> r.usage]
                               ELSE [Time |-> NewTime(t),
                                     UsageCoreNanoSeconds |-> Ptr(0),
                                     UsageNanoCores |-> Ptr(0)]
                     fromInfo == cStats # Nil /\ Deref(cStats).Memory # Nil
                     memory == IF Deref(stats).Memory # Nil
                               THEN [Time |-> NewTime(Deref(Deref(stats).Memory).Timestamp),
                                     AvailableBytes |-> Nil,
                                     UsageBytes |->
                                         IF fromInfo
                                         THEN Ptr(Deref(Deref(cStats).Memory).Usage)
                                         ELSE Nil,
                                     WorkingSetBytes |->
                                         Deref(Deref(stats).Memory).WorkingSetBytes,
                                     RSSBytes |->
                                         IF fromInfo
                                         THEN Ptr(Deref(Deref(cStats).Memory).RSS)
                                         ELSE Nil,
                                     PageFaults |-> Nil, MajorPageFaults |-> Nil]
                               ELSE [Time |-> NewTime(t),
                                     AvailableBytes |-> Nil, UsageBytes |-> Nil,
                                     WorkingSetBytes |-> Ptr(0), RSSBytes |-> Nil,
                                     PageFaults |-> Nil, MajorPageFaults |-> Nil]
                     known  == fsID # Nil /\ imageFsInfo # Nil
                     rootfs == [Time |-> IF layer = Nil THEN NewTime(0)
                                         ELSE NewTime(Deref(layer).Timestamp),
                                UsedBytes |-> IF layer = Nil THEN Nil
                                              ELSE Deref(layer).UsedBytes,
                                InodesUsed |-> IF layer = Nil THEN Nil
                                               ELSE Deref(layer).InodesUsed,
                                AvailableBytes |->
                                    IF known THEN Ptr(Deref(imageFsInfo).Available)
                                    ELSE Nil,
                                CapacityBytes |->
                                    IF known THEN Ptr(Deref(imageFsInfo).Capacity)
                                    ELSE Nil,
                                InodesFree |->
                                    IF known THEN Deref(imageFsInfo).InodesFree
                                    ELSE Nil,
                                Inodes |->
                                    IF known THEN Deref(imageFsInfo).Inodes
                                    ELSE Nil]
                 IN  [cs |-> [Name         |-> name,
                              StartTime    |-> NewTime(container.CreatedAt),
                              CPU          |-> Ptr(cpu),
                              Memory       |-> Ptr(memory),
                              Rootfs       |-> Ptr(rootfs),
                              DiskIo       |->
                                  IF cStats = Nil THEN Nil
                                  ELSE convertToDiskIoStats(Deref(cStats).DiskIo),
                              ProcessStats |->
                                  IF cStats = Nil
                                  THEN Ptr([ProcessCount |-> 0, FdCount |-> 0,
                                            SocketCount |-> 0, ThreadsCurrent |-> 0,
                                            ThreadsMax |-> 0])
                                  ELSE convertToProcessStats(Deref(cStats).Processes)],
                      cache |-> r.cache,
                      fsIDtoInfo |->
                          IF fsID # Nil /\ ~found
                          THEN MapSet(fsIDtoInfo, Deref(fsID), imageFsInfo)
                          ELSE fsIDtoInfo,
                      queried |->
                          IF fsID # Nil /\ ~found
                          THEN <<Deref(fsID).Mountpoint>> ELSE <<>>,
                      panic |-> FALSE]
         IN  made(IF Deref(stats).Cpu = Nil
                  THEN [usage |-> Ptr(0), cache |-> cache]
                  ELSE IF updateCPUNanoCoreUsage
                  THEN getAndUpdateContainerUsageNanoCores(cache, stats)
                  ELSE getContainerUsageNanoCores(cache, stats),
                  IF found THEN fsIDtoInfo[Deref(fsID)]
                  ELSE getFsInfo(dirFsInfo, fsID))

\* makeContainerCPUAndMemoryStats: as makeContainerStats does, without the
\* stats of the root filesystem and its lookups, the rate being the cached
\* one
makeContainerCPUAndMemoryStats(cache, stats, container, infos, t) ==
    LET strip(made) ==
            [cs |-> IF made.panic THEN Nil
                    ELSE [made.cs EXCEPT !.Rootfs = Nil],
             cache |-> made.cache, panic |-> made.panic]
    IN  strip(makeContainerStats(cache, EmptyCache,
                                 Ptr([Deref(stats) EXCEPT !.WritableLayer = Nil]),
                                 container, EmptyCache, FALSE, infos, t))

\* The field of the MemoryStats of the container alone
MemoryOfContainer(csMemory, psMemory, field) ==
    Ptr(getUint64Value(csMemory[field]))

\* The sum of a field of the MemoryStats of a container and of its pod
MemorySum(csMemory, psMemory, field) ==
    Ptr(getUint64Value(csMemory[field]) + getUint64Value(psMemory[field]))

\* addPodCPUMemoryStats: the CPU and memory stats of the pod cgroup when
\* allInfos has it, else the sums of the containers' stats
addPodCPUMemoryStats(ps, podUID, allInfos, cs) ==
    LET podCgroupInfo == getCadvisorPodInfoFromPodUID(podUID, allInfos)
    IN  IF podCgroupInfo # Nil
        THEN LET cm == cadvisorInfoToCPUandMemoryStats(Deref(podCgroupInfo))
             IN  [ps EXCEPT !.CPU = cm.cpu, !.Memory = cm.memory]
        ELSE LET psCPU == IF ps.CPU = Nil
                          THEN [Time |-> NewTime(0),
                                UsageCoreNanoSeconds |-> Nil,
                                UsageNanoCores |-> Nil]
                          ELSE Deref(ps.CPU)
                 csCPU == Deref(cs.CPU)
                 psMem == IF ps.Memory = Nil
                          THEN [Time |-> NewTime(0),
                                AvailableBytes |-> Nil, UsageBytes |-> Nil,
                                WorkingSetBytes |-> Nil, RSSBytes |-> Nil,
                                PageFaults |-> Nil, MajorPageFaults |-> Nil]
                          ELSE Deref(ps.Memory)
                 csMem == Deref(cs.Memory)
             IN  [ps EXCEPT
                     !.CPU =
                         IF cs.CPU = Nil THEN ps.CPU
                         ELSE Ptr([Time |-> csCPU.Time,
                                   UsageCoreNanoSeconds |->
                                       Ptr(getUint64Value(csCPU.UsageCoreNanoSeconds)
                                           + getUint64Value(psCPU.UsageCoreNanoSeconds)),
                                   UsageNanoCores |->
                                       Ptr(getUint64Value(csCPU.UsageNanoCores)
                                           + getUint64Value(psCPU.UsageNanoCores))]),
                     !.Memory =
                         IF cs.Memory = Nil THEN ps.Memory
                         ELSE Ptr([Time |-> csMem.Time,
                                   AvailableBytes |->
                                       MemorySum(csMem, psMem, "AvailableBytes"),
                                   UsageBytes |->
                                       MemorySum(csMem, psMem, "UsageBytes"),
                                   WorkingSetBytes |->
                                       MemorySum(csMem, psMem, "WorkingSetBytes"),
                                   RSSBytes |->
                                       MemorySum(csMem, psMem, "RSSBytes"),
                                   PageFaults |->
                                       MemorySum(csMem, psMem, "PageFaults"),
                                   MajorPageFaults |->
                                       MemorySum(csMem, psMem, "MajorPageFaults")])]

\* addDiskIoStats: the disk I/O stats of the pod cgroup when allInfos has it,
\* and the container's are added to what the pod has
addDiskIoStats(ps, podUID, allInfos, cs) ==
    LET info   == getCadvisorPodInfoFromPodUID(podUID, allInfos)
        diskIo == IF info # Nil THEN cadvisorInfoToDiskIoStats(Deref(info))
                  ELSE ps.DiskIo
    IN  [ps EXCEPT !.DiskIo = DiskIoAdd(diskIo, cs.DiskIo)]

\* The process stats of the pod are those of the container folded in last
addProcessStatsOfLast(ps, podUID, allInfos, cs) ==
    [ps EXCEPT !.ProcessStats = cs.ProcessStats]

\* addProcessStats: the process stats of the pod cgroup when allInfos has it,
\* and the container's are added to what the pod has
addProcessStats(ps, podUID, allInfos, cs) ==
    LET info == getCadvisorPodInfoFromPodUID(podUID, allInfos)
        base == IF info # Nil THEN cadvisorInfoToProcessStats(Deref(info))
                ELSE ps.ProcessStats
        have == IF base = Nil
                THEN [ProcessCount |-> 0, FdCount |-> 0, SocketCount |-> 0,
                      ThreadsCurrent |-> 0, ThreadsMax |-> 0]
                ELSE Deref(base)
        add  == Deref(cs.ProcessStats)
    IN  [ps EXCEPT !.ProcessStats =
            IF cs.ProcessStats = Nil THEN base
            ELSE Ptr([ProcessCount   |-> have.ProcessCount + add.ProcessCount,
                      FdCount        |-> have.FdCount + add.FdCount,
                      SocketCount    |-> have.SocketCount + add.SocketCount,
                      ThreadsCurrent |-> have.ThreadsCurrent + add.ThreadsCurrent,
                      ThreadsMax     |-> have.ThreadsMax + add.ThreadsMax])]

\* The CPU and memory stats of the container's cgroup replace those of the
\* container's stats even when the cgroup has none
addCadvisorContainerStatsUnguarded(cs, caPodStats) ==
    LET cm == cadvisorInfoToCPUandMemoryStats(caPodStats)
    IN  [cs EXCEPT !.CPU = cm.cpu, !.Memory = cm.memory]

\* addCadvisorContainerStats: the CPU and memory stats of the container's
\* cgroup replace those of the container's stats
addCadvisorContainerStats(cs, caPodStats) ==
    LET cm == cadvisorInfoToCPUandMemoryStats(caPodStats)
    IN  [cs EXCEPT !.CPU    = IF cm.cpu # Nil THEN cm.cpu ELSE cs.CPU,
                   !.Memory = IF cm.memory # Nil THEN cm.memory ELSE cs.Memory]

\* A map from the Id of the items of a slice to the item, a later item
\* replacing an earlier one of the same Id
MapById(items) ==
    [id \in {x.Id : x \in Range(items)} |->
        items[Max({i \in 1..Len(items) : items[i].Id = id})]]

\* One iteration of the loop over the listed stats.  acc is [cache, pods,
\* fsIDtoInfo, queries, panic]: pods is sandboxIDToPodStats; fsIDtoInfo is
\* the table of the pass, nil in ListPodCPUAndMemoryStats, which has none and
\* calls makeContainerCPUAndMemoryStats; queries are the mountpoints that
\* GetDirFsInfo was queried for.  cadvisor is what the accounting subsystem
\* answers: Infos, the infos of the cgroups, and DirFsInfo.
processStats(acc, stats, containerMap, podSandboxMap, cadvisor, updateCPUNanoCoreUsage, t) ==
    IF stats = Nil \/ Deref(stats).Attributes = Nil
    THEN [acc EXCEPT !.panic = TRUE]
    ELSE LET containerID == Deref(Deref(stats).Attributes).Id
             allInfos    == cadvisor.Infos
         IN  IF containerID \notin DOMAIN containerMap THEN acc
             ELSE LET container    == containerMap[containerID]
                      podSandboxID == container.PodSandboxId
                  IN  IF podSandboxID \notin DOMAIN podSandboxMap THEN acc
                      ELSE LET podSandbox == podSandboxMap[podSandboxID]
                               caInfos == getCRICadvisorStats(allInfos)
                               fold(ps, made) ==
                                   LET cs  == made.cs
                                       ps1 == addPodCPUMemoryStats(
                                                  ps, podSandbox.Metadata.Uid,
                                                  allInfos, cs)
                                       ps2 == addDiskIoStats(ps1, podSandboxID,
                                                             allInfos, cs)
                                       ps3 == addProcessStats(ps2, podSandboxID,
                                                              allInfos, cs)
                                       cs1 == IF containerID \in DOMAIN caInfos
                                              THEN addCadvisorContainerStats(
                                                       cs, caInfos[containerID])
                                              ELSE cs
                                   IN  IF made.panic
                                       THEN [acc EXCEPT !.panic = TRUE]
                                       ELSE [cache |-> made.cache,
                                             pods  |-> MapSet(acc.pods, podSandboxID,
                                                          [ps3 EXCEPT !.Containers =
                                                              Append(ps.Containers, cs1)]),
                                             fsIDtoInfo |->
                                                 IF acc.fsIDtoInfo = Nil THEN Nil
                                                 ELSE Ptr(made.fsIDtoInfo),
                                             queries |->
                                                 IF acc.fsIDtoInfo = Nil
                                                 THEN acc.queries
                                                 ELSE acc.queries \o made.queried,
                                             panic |-> FALSE]
                           IN  fold(IF podSandboxID \in DOMAIN acc.pods
                                    THEN acc.pods[podSandboxID]
                                    ELSE buildPodStats(podSandbox),
                                    IF acc.fsIDtoInfo = Nil
                                    THEN makeContainerCPUAndMemoryStats(
                                             acc.cache, stats, container,
                                             allInfos, t)
                                    ELSE makeContainerStats(
                                             acc.cache, cadvisor.DirFsInfo,
                                             stats, container,
                                             Deref(acc.fsIDtoInfo),
                                             updateCPUNanoCoreUsage,
                                             allInfos, t))

\* A loop that ends at the first record that does not resolve
RECURSIVE statsLoopBreaking(_, _, _, _, _, _, _, _)
statsLoopBreaking(acc, list, i, containerMap, podSandboxMap, cadvisor, updateCPUNanoCoreUsage, t) ==
    IF i > Len(list) \/ acc.panic THEN acc
    ELSE LET next == processStats(acc, list[i], containerMap, podSandboxMap,
                                  cadvisor, updateCPUNanoCoreUsage, t)
         IN  IF next = acc THEN acc
             ELSE statsLoopBreaking(next, list, i + 1, containerMap,
                                    podSandboxMap, cadvisor,
                                    updateCPUNanoCoreUsage, t)

\* The loop over the listed stats, from position i on; it ends at a panic
RECURSIVE statsLoop(_, _, _, _, _, _, _, _)
statsLoop(acc, list, i, containerMap, podSandboxMap, cadvisor, updateCPUNanoCoreUsage, t) ==
    IF i > Len(list) \/ acc.panic THEN acc
    ELSE statsLoop(processStats(acc, list[i], containerMap, podSandboxMap,
                                cadvisor, updateCPUNanoCoreUsage, t),
                   list, i + 1, containerMap, podSandboxMap, cadvisor,
                   updateCPUNanoCoreUsage, t)

\* What a pass does once its fetches are issued.  env is what the upstream
\* services answer: failing, the fetches that return an error, the listings
\* Items, Containers and Stats, and Infos and DirFsInfo, the infos of the
\* cgroups and of the filesystems that the accounting subsystem has.
\* fsIDtoInfo is the table of the pass, nil when it has none.  The set of the
\* outcomes [result, err, cache, fetched, panic], fetched being the upstream
\* calls in their order, GetDirFsInfo by the mountpoint it is queried for:
\* one for every outcome of the dedup filters, of the sweep and of the range
\* over sandboxIDToPodStats.
passOutcomes(issued, cache, updateCPUNanoCoreUsage, env, t, fsIDtoInfo) ==
    IF issued.err # Nil
    THEN {[result |-> Nil, err |-> issued.err, cache |-> cache,
           fetched |-> issued.fetched, panic |-> FALSE]}
    ELSE UNION {
             LET afterLoop(acc) ==
                     IF acc.panic
                     THEN {[result |-> Nil, err |-> Nil, cache |-> acc.cache,
                            fetched |-> issued.fetched \o acc.queries,
                            panic |-> TRUE]}
                     ELSE {[result  |-> IF swept.panic THEN Nil
                                        ELSE Ptr([i \in 1..Len(order) |->
                                                     acc.pods[order[i]]]),
                            err     |-> Nil,
                            cache   |-> swept.cache,
                            fetched |-> issued.fetched \o acc.queries,
                            panic   |-> swept.panic] :
                               swept \in cleanupOutdatedCaches(acc.cache, t),
                               order \in Orderings(DOMAIN acc.pods)}
             IN  afterLoop(statsLoop([cache |-> cache, pods |-> EmptyCache,
                                      fsIDtoInfo |-> fsIDtoInfo,
                                      queries |-> <<>>, panic |-> FALSE],
                                     env.Stats, 1, MapById(containers),
                                     MapById(podSandboxes), env,
                                     updateCPUNanoCoreUsage, t)) :
             podSandboxes \in removeTerminatedPods(env.Items),
             containers \in removeTerminatedContainers(env.Containers)}

\* A listPodStats that runs the eviction sweep before its fetches
listPodStatsSweepingFirst(cache, updateCPUNanoCoreUsage, env, t) ==
    UNION {passOutcomes(issueFetches(listPodStatsFetches, env.failing),
                        swept.cache, updateCPUNanoCoreUsage, env, t,
                        Ptr(EmptyCache)) :
               swept \in cleanupOutdatedCaches(cache, t)}

\* listPodStats at wall-clock time t
listPodStats(cache, updateCPUNanoCoreUsage, env, t) ==
    passOutcomes(issueFetches(listPodStatsFetches, env.failing),
                 cache, updateCPUNanoCoreUsage, env, t, Ptr(EmptyCache))

\* A read-only entry point that updates the CPU nano core usage
ListPodStatsUpdating(cache, env, t) == listPodStats(cache, TRUE, env, t)

\* ListPodStats: "Don't update CPU nano core usage."
ListPodStats(cache, env, t) == listPodStats(cache, FALSE, env, t)

\* ListPodStatsAndUpdateCPUNanoCoreUsage: "Update CPU nano core usage."
ListPodStatsAndUpdateCPUNanoCoreUsage(cache, env, t) ==
    listPodStats(cache, TRUE, env, t)

\* A ListPodCPUAndMemoryStats that calls makeContainerStats and updates the
\* CPU nano core usage
ListPodCPUAndMemoryStatsUpdating(cache, env, t) ==
    passOutcomes(issueFetches(listPodCPUAndMemoryStatsFetches, env.failing),
                 cache, TRUE, env, t, Ptr(EmptyCache))

\* ListPodCPUAndMemoryStats at wall-clock time t: the rate is the cached one
ListPodCPUAndMemoryStats(cache, env, t) ==
    passOutcomes(issueFetches(listPodCPUAndMemoryStatsFetches, env.failing),
                 cache, FALSE, env, t, Nil)

-----------------------------------------------------------------------------
(* Bounds of the model *)

\* Ticks between two near readings of the clock
SampleInterval == 5

\* Near readings of the clock after time 0
NearTicks == 1

\* Nanoseconds of CPU time between two values of a cumulative counter
UsageStep == 82

\* Longest listing handed to a dedup filter
MaxItems == 3

\* Latest creation time of a listed sandbox or container
MaxCreatedAt == 2

ContainerIds == {"c1", "c2"}

\* Readings of the clock: near ones, and one more than ten minutes later
Times ==
    {i * SampleInterval : i \in 0..NearTicks}
        \cup {defaultCachePeriod + SampleInterval}

\* Values of a cumulative CPU counter
UsageValues == {0, UsageStep}

\* The CPU samples the runtime can report at time t: stamped with a past or
\* present reading of the clock, with or without a cumulative counter
CpuUsagesAt(t) ==
    {[Timestamp |-> ts, UsageCoreNanoSeconds |-> u] :
        ts \in {x \in Times : x <= t},
        u \in {Nil} \cup {Ptr(v) : v \in UsageValues}}

\* The stat records makeContainerStats hands to the rate cache at time t:
\* attributes and CPU info are present
StatsAt(t) ==
    {Ptr([Attributes |-> Ptr([Id |-> id, Metadata |-> Ptr([Name |-> "app"])]),
          Cpu        |-> Ptr(cpu),
          Memory     |-> Nil,
          WritableLayer |-> Nil]) :
        id \in ContainerIds, cpu \in CpuUsagesAt(t)}

NoRet == [usage |-> Nil, err |-> Nil, panic |-> FALSE]

\* The callers that use the rate cache concurrently
Callers == {"t1", "t2", "t3"}

\* sync.RWMutex: w, whether a writer holds it, and readerCount, the readers
\* that hold it
Unlocked == [w |-> FALSE, readerCount |-> 0]

\* No caller is inside a method of the rate cache
NoCallers == [th \in Callers |-> [at |-> "idle"]]

-----------------------------------------------------------------------------
(* SpecRate: the operations of the rate cache, one critical section each,  *)
(* in any order, and the passing of time.                                  *)

InitRate ==
    /\ NoTasks
    /\ NoCronjobs
    /\ cpuUsageCache = EmptyCache
    /\ now = 0
    /\ op = "init"
    /\ arg = Nil
    /\ pre = EmptyCache
    /\ ret = NoRet
    /\ fetched = <<>>
    /\ mutex = Unlocked
    /\ pc = NoCallers

GetAndUpdate ==
    \E stats \in StatsAt(now) :
        LET r == getAndUpdateContainerUsageNanoCores(cpuUsageCache, stats)
        IN  /\ cpuUsageCache' = r.cache
            /\ op' = "getAndUpdateContainerUsageNanoCores"
            /\ arg' = stats
            /\ pre' = cpuUsageCache
            /\ ret' = [usage |-> r.usage, err |-> r.err, panic |-> FALSE]
            /\ UNCHANGED <<now, fetched, mutex, pc,
                           taskVars, cronVars>>

GetCached ==
    \E stats \in StatsAt(now) :
        LET r == getContainerUsageNanoCores(cpuUsageCache, stats)
        IN  /\ cpuUsageCache' = r.cache
            /\ op' = "getContainerUsageNanoCores"
            /\ arg' = stats
            /\ pre' = cpuUsageCache
            /\ ret' = [usage |-> r.usage, err |-> Nil, panic |-> FALSE]
            /\ UNCHANGED <<now, fetched, mutex, pc,
                           taskVars, cronVars>>

Cleanup ==
    \E r \in cleanupOutdatedCaches(cpuUsageCache, now) :
        /\ cpuUsageCache' = r.cache
        /\ op' = "cleanupOutdatedCaches"
        /\ arg' = Nil
        /\ pre' = cpuUsageCache
        /\ ret' = [usage |-> Nil, err |-> Nil, panic |-> r.panic]
        /\ UNCHANGED <<now, fetched, mutex, pc,
                       taskVars, cronVars>>

Tick ==
    \E t \in Times :
        /\ t > now
        /\ now' = t
        /\ op' = "tick"
        /\ arg' = Nil
        /\ pre' = cpuUsageCache
        /\ ret' = NoRet
        /\ UNCHANGED <<cpuUsageCache, fetched, mutex, pc,
                       taskVars, cronVars>>

NextRate == GetAndUpdate \/ GetCached \/ Cleanup \/ Tick

SpecRate == InitRate /\ [][NextRate]_vars

-----------------------------------------------------------------------------
(* SpecSweep: the eviction sweep on the caches an in-package caller can    *)
(* build.  The type map[string]*cpuUsageRecord admits a nil record and a   *)
(* record with nil stats; the update path stores neither.                  *)

CacheValues ==
    {Nil, Ptr([stats |-> Nil, usageNanoCores |-> Nil])}
        \cup {Ptr([stats |-> Ptr(cpu), usageNanoCores |-> Nil]) :
                 cpu \in {c \in CpuUsagesAt(Max(Times)) :
                             c.UsageCoreNanoSeconds # Nil}}

BuiltCaches ==
    UNION {[ids -> CacheValues] : ids \in SUBSET ContainerIds}

InitSweep ==
    /\ NoTasks
    /\ NoCronjobs
    /\ cpuUsageCache \in BuiltCaches
    /\ now \in Times
    /\ op = "init"
    /\ arg = Nil
    /\ pre = cpuUsageCache
    /\ ret = NoRet
    /\ fetched = <<>>
    /\ mutex = Unlocked
    /\ pc = NoCallers

NextSweep == Cleanup

SpecSweep == InitSweep /\ [][NextSweep]_vars

-----------------------------------------------------------------------------
(* SpecDedup: the dedup filters applied to the listings of the runtime.    *)

\* (Name, Namespace) of the listed sandboxes
PodKeys == {<<"a", "n1">>, <<"a", "n2">>}

\* What a listed sandbox is, but for its Id and UID
PodShapes ==
    [key : PodKeys, State : {SANDBOX_READY, SANDBOX_NOTREADY},
     CreatedAt : 1..MaxCreatedAt]

\* A listing of sandboxes of the given shapes: ids and UIDs are unique
PodListing(shapes) ==
    [i \in DOMAIN shapes |->
        [Id |-> <<"p", i>>,
         Metadata |-> [Name |-> shapes[i].key[1], Uid |-> <<"u", i>>,
                       Namespace |-> shapes[i].key[2]],
         State |-> shapes[i].State, CreatedAt |-> shapes[i].CreatedAt]]

\* (pod name, pod namespace, container name) labels of the listed containers
ContainerKeys == {<<"a", "n1", "app">>, <<"a", "n1", "sidecar">>}

\* What a listed container is, but for its Id
ContainerShapes ==
    [key : ContainerKeys,
     State : {CONTAINER_CREATED, CONTAINER_RUNNING, CONTAINER_EXITED},
     CreatedAt : 1..MaxCreatedAt]

\* A listing of containers of the given shapes: ids are unique
ContainerListing(shapes) ==
    [i \in DOMAIN shapes |->
        [Id |-> <<"c", i>>, PodSandboxId |-> <<"p", 1>>,
         Labels |-> [PodName |-> shapes[i].key[1],
                     PodNamespace |-> shapes[i].key[2],
                     ContainerName |-> shapes[i].key[3]],
         State |-> shapes[i].State, CreatedAt |-> shapes[i].CreatedAt]]

\* A listing of at most MaxItems items arrives from the runtime
InitDedup ==
    /\ NoTasks
    /\ NoCronjobs
    /\ cpuUsageCache = EmptyCache
    /\ now = 0
    /\ pre = EmptyCache
    /\ ret = <<>>
    /\ fetched = <<>>
    /\ mutex = Unlocked
    /\ pc = NoCallers
    /\ \E n \in 0..MaxItems :
           \/ /\ op = "ListPodSandbox"
              /\ \E shapes \in [1..n -> PodShapes] : arg = PodListing(shapes)
           \/ /\ op = "ListContainers"
              /\ \E shapes \in [1..n -> ContainerShapes] :
                     arg = ContainerListing(shapes)

RemoveTerminatedPods ==
    /\ op = "ListPodSandbox"
    /\ \E result \in removeTerminatedPods(arg) :
            /\ op' = "removeTerminatedPods"
            /\ ret' = result
            /\ UNCHANGED <<cpuUsageCache, now, pre, arg, fetched, mutex, pc,
                           taskVars, cronVars>>

RemoveTerminatedContainers ==
    /\ op = "ListContainers"
    /\ \E result \in removeTerminatedContainers(arg) :
            /\ op' = "removeTerminatedContainers"
            /\ ret' = result
            /\ UNCHANGED <<cpuUsageCache, now, pre, arg, fetched, mutex, pc,
                           taskVars, cronVars>>

NextDedup == RemoveTerminatedPods \/ RemoveTerminatedContainers

SpecDedup == InitDedup /\ [][NextDedup]_vars

-----------------------------------------------------------------------------
(* Spec: the entry points of the provider, one pass each, in any order,    *)
(* and the passing of time.  A pod "web" was created twice, sandbox p1     *)
(* with container c1 and then sandbox p2 with container c2.                *)

\* ListPodSandbox: p2 is READY; p1 is READY, or NOTREADY when alive is FALSE
PassSandboxes(alive) ==
    <<[Id |-> "p1",
       Metadata |-> [Name |-> "web", Uid |-> "u1", Namespace |-> "default"],
       State |-> IF alive THEN SANDBOX_READY ELSE SANDBOX_NOTREADY,
       CreatedAt |-> 1],
      [Id |-> "p2",
       Metadata |-> [Name |-> "web", Uid |-> "u2", Namespace |-> "default"],
       State |-> SANDBOX_READY, CreatedAt |-> MaxCreatedAt]>>

\* ListContainers: c2 is RUNNING; c1 is RUNNING, or EXITED when alive is FALSE
PassContainers(alive) ==
    <<[Id |-> "c1", PodSandboxId |-> "p1",
       Labels |-> [PodName |-> "web", PodNamespace |-> "default",
                   ContainerName |-> "app"],
       State |-> IF alive THEN CONTAINER_RUNNING ELSE CONTAINER_EXITED,
       CreatedAt |-> 1],
      [Id |-> "c2", PodSandboxId |-> "p2",
       Labels |-> [PodName |-> "web", PodNamespace |-> "default",
                   ContainerName |-> "app"],
       State |-> CONTAINER_RUNNING, CreatedAt |-> MaxCreatedAt]>>

\* The record the runtime lists for a container at time t: a sample taken at
\* t, with a cumulative counter
PassStats(id, t) ==
    {st \in StatsAt(t) :
        /\ Deref(Deref(st).Attributes).Id = id
        /\ Deref(Deref(st).Cpu).Timestamp = t
        /\ Deref(Deref(st).Cpu).UsageCoreNanoSeconds # Nil}

\* The stats the runtime lists at time t: at most one record for a container
PassStatsLists(t) ==
    {<<>>} \cup {<<st>> : st \in PassStats("c1", t) \cup PassStats("c2", t)}
        \cup {<<st1, st2>> : st1 \in PassStats("c1", t), st2 \in PassStats("c2", t)}

\* What the upstream services answer at time t: at most one fetch fails
PassEnvs(t) ==
    {[failing |-> {}, Items |-> PassSandboxes(alive),
      Containers |-> PassContainers(alive), Stats |-> stats,
      Infos |-> EmptyCache, DirFsInfo |-> EmptyCache] :
        alive \in BOOLEAN, stats \in PassStatsLists(t)}
    \cup
    {[failing |-> {f}, Items |-> <<>>, Containers |-> <<>>, Stats |-> <<>>,
      Infos |-> EmptyCache, DirFsInfo |-> EmptyCache] :
        f \in Range(listPodStatsFetches)}

NoPassRet == [result |-> Nil, err |-> Nil, panic |-> FALSE]

Init ==
    /\ NoTasks
    /\ NoCronjobs
    /\ cpuUsageCache = EmptyCache
    /\ now = 0
    /\ op = "init"
    /\ arg = Nil
    /\ pre = EmptyCache
    /\ ret = NoPassRet
    /\ fetched = <<>>
    /\ mutex = Unlocked
    /\ pc = NoCallers

DoListPodStats ==
    \E env \in PassEnvs(now) :
        \E r \in ListPodStats(cpuUsageCache, env, now) :
            /\ cpuUsageCache' = r.cache
            /\ op' = "ListPodStats"
            /\ arg' = env
            /\ pre' = cpuUsageCache
            /\ ret' = [result |-> r.result, err |-> r.err, panic |-> r.panic]
            /\ fetched' = r.fetched
            /\ UNCHANGED <<now, mutex, pc,
                           taskVars, cronVars>>

DoListPodStatsAndUpdateCPUNanoCoreUsage ==
    \E env \in PassEnvs(now) :
        \E r \in ListPodStatsAndUpdateCPUNanoCoreUsage(cpuUsageCache, env, now) :
            /\ cpuUsageCache' = r.cache
            /\ op' = "ListPodStatsAndUpdateCPUNanoCoreUsage"
            /\ arg' = env
            /\ pre' = cpuUsageCache
            /\ ret' = [result |-> r.result, err |-> r.err, panic |-> r.panic]
            /\ fetched' = r.fetched
            /\ UNCHANGED <<now, mutex, pc,
                           taskVars, cronVars>>

\* The times at which passes run: the start, one sample interval later, and
\* past the cache period
PassTimes == {0, SampleInterval, defaultCachePeriod + SampleInterval}

PassTick ==
    \E t \in PassTimes :
        /\ t > now
        /\ now' = t
        /\ op' = "tick"
        /\ arg' = Nil
        /\ pre' = cpuUsageCache
        /\ ret' = NoPassRet
        /\ fetched' = <<>>
        /\ UNCHANGED <<cpuUsageCache, mutex, pc,
                       taskVars, cronVars>>

Next == DoListPodStats \/ DoListPodStatsAndUpdateCPUNanoCoreUsage \/ PassTick

Spec == Init /\ [][Next]_vars

-----------------------------------------------------------------------------
(* Properties of the pass (Spec)                                           *)

PassRan == op \in {"ListPodStats", "ListPodStatsAndUpdateCPUNanoCoreUsage"}

\* C1: when an upstream fetch of listPodStats (root filesystem info,
\* ListContainers, ListPodSandbox, ListContainerStats, the accounting
\* subsystem's container infos, container network stats) returns an error,
\* the pass returns a nil snapshot and an error, the failed fetch is the last
\* one issued, the fetches before it are those of the sequence and the cache
\* is not touched; and no pass returns both a snapshot and an error.
C1_FailFast ==
    PassRan =>
        /\ arg.failing # {} =>
               /\ ret.result = Nil
               /\ ret.err # Nil
               /\ fetched # <<>>
               /\ fetched = SubSeq(listPodStatsFetches, 1, Len(fetched))
               /\ fetched[Len(fetched)] \in arg.failing
               /\ \A i \in 1..(Len(fetched) - 1) : fetched[i] \notin arg.failing
               /\ cpuUsageCache = pre
        /\ arg.failing = {} => fetched = listPodStatsFetches
        /\ ~(ret.err # Nil /\ ret.result # Nil)

\* ListContainerStats failed: four fetches were issued, and the two after it
\* were not
C1_Witness ==
    /\ PassRan
    /\ arg.failing = {"ListContainerStats"}
    /\ Len(fetched) = 4
    /\ ret.result = Nil
    /\ ret.err # Nil
    /\ pre # EmptyCache

\* The entries of a cache that the sweep evicts at the current time
OutdatedKeys(cache) ==
    {k \in DOMAIN cache :
        now - Deref(Deref(cache[k]).stats).Timestamp > defaultCachePeriod}

\* C2, as stated: after ListPodStats the cache is identical to the cache
\* before the call.
C2_ReadOnlyPassLeavesCacheIdentical ==
    op = "ListPodStats" => cpuUsageCache = pre

\* C2, amended: ListPodStats inserts no entry and changes none; a pass that
\* fails leaves the cache identical, and a pass that succeeds removes exactly
\* the entries whose last sample is more than ten minutes before now.
C2_ReadOnlyPassOnlyEvicts ==
    op = "ListPodStats" =>
        /\ ret.err # Nil => cpuUsageCache = pre
        /\ ret.err = Nil => cpuUsageCache = MapDelete(pre, OutdatedKeys(pre))

\* A read-only pass that was handed samples evicted an entry and kept another
C2_Witness ==
    /\ op = "ListPodStats"
    /\ arg.Stats # <<>>
    /\ DOMAIN cpuUsageCache # DOMAIN pre
    /\ cpuUsageCache # EmptyCache

-----------------------------------------------------------------------------
(* Properties of the rate cache (SpecRate)                                 *)

\* The sample of the last call and the entry it met
ArgId == Deref(Deref(arg).Attributes).Id

ArgCpu == Deref(Deref(arg).Cpu)

ArgUsage == Deref(ArgCpu.UsageCoreNanoSeconds)

PreStats == Deref(Deref(pre[ArgId]).stats)

PreUsage == Deref(PreStats.UsageCoreNanoSeconds)

PreRate == IF ArgId \in DOMAIN pre THEN Deref(pre[ArgId]).usageNanoCores ELSE Nil

\* An updating call with a sample that carries a cumulative counter
UpdateCalled ==
    /\ op = "getAndUpdateContainerUsageNanoCores"
    /\ ArgCpu.UsageCoreNanoSeconds # Nil

OthersUnchanged ==
    /\ DOMAIN cpuUsageCache \ {ArgId} = DOMAIN pre \ {ArgId}
    /\ \A k \in DOMAIN pre \ {ArgId} : cpuUsageCache[k] = pre[k]

\* The preconditions of a rate hold
RateCase ==
    /\ UpdateCalled
    /\ ArgId \in DOMAIN pre
    /\ PreUsage <= ArgUsage
    /\ ArgCpu.Timestamp - PreStats.Timestamp > 0

\* (new - cached) * 10^9 / elapsed nanoseconds, truncated, in exact arithmetic:
\* the elapsed time is ticks * 2^TickShift and 10^9 = 5^9 * 2^9
ExactRate ==
    ((ArgUsage - PreUsage) * (NanosPerSecond \div 2^9))
        \div ((ArgCpu.Timestamp - PreStats.Timestamp) * 2^(TickShift - 9))

RateOf(cache, id) ==
    IF id \in DOMAIN cache THEN Deref(cache[id]).usageNanoCores ELSE Nil

\* C4: a cumulative counter strictly lower than the cached one yields an
\* absent rate and an entry holding the new sample with an absent rate; while
\* an entry has an absent rate a read-only lookup of its container returns
\* absent, and only an updating call on that container that returns a rate
\* gives the entry a rate.
C4_RegressionYieldsNoRate ==
    /\ (UpdateCalled /\ ArgId \in DOMAIN pre /\ ArgUsage < PreUsage) =>
           /\ ret.usage = Nil
           /\ cpuUsageCache[ArgId]
                  = Ptr([stats |-> Deref(arg).Cpu, usageNanoCores |-> Nil])
           /\ OthersUnchanged
    /\ \A id \in DOMAIN pre :
           RateOf(pre, id) = Nil =>
               /\ (op = "getContainerUsageNanoCores" /\ ArgId = id) => ret.usage = Nil
               /\ RateOf(cpuUsageCache, id) # Nil =>
                      /\ op = "getAndUpdateContainerUsageNanoCores"
                      /\ ArgId = id
                      /\ ret.usage = RateOf(cpuUsageCache, id)

\* A regression met an entry that had a rate
C4_Witness ==
    /\ UpdateCalled
    /\ ArgId \in DOMAIN pre
    /\ ArgUsage < PreUsage
    /\ PreRate # Nil
    /\ ret.usage = Nil

\* The rate cannot be computed
NoEntryCase == UpdateCalled /\ ArgId \notin DOMAIN pre

RegressionCase == UpdateCalled /\ ArgId \in DOMAIN pre /\ ArgUsage < PreUsage

BadIntervalCase ==
    /\ UpdateCalled
    /\ ArgId \in DOMAIN pre
    /\ PreUsage <= ArgUsage
    /\ ArgCpu.Timestamp - PreStats.Timestamp <= 0

\* C5, as stated: on every precondition failure (no entry, regression, zero or
\* negative elapsed time) no rate is returned and the entry holds the new raw
\* sample.
C5_EveryFailureStoresSample ==
    (NoEntryCase \/ RegressionCase \/ BadIntervalCase) =>
        /\ ret.usage = Nil
        /\ ArgId \in DOMAIN cpuUsageCache
        /\ Deref(cpuUsageCache[ArgId]).stats = Deref(arg).Cpu

\* C5, amended: with no entry or a regression no rate is returned and the
\* entry becomes the new raw sample with an absent rate; with a zero or
\* negative elapsed time no rate is returned, an error is logged and the cache
\* is left as it was, the old sample staying the baseline.
C5_FailureStoresSampleButBadInterval ==
    /\ (NoEntryCase \/ RegressionCase) =>
           /\ ret.usage = Nil
           /\ ret.err = Nil
           /\ cpuUsageCache[ArgId]
                  = Ptr([stats |-> Deref(arg).Cpu, usageNanoCores |-> Nil])
           /\ OthersUnchanged
    /\ BadIntervalCase =>
           /\ ret.usage = Nil
           /\ ret.err # Nil
           /\ cpuUsageCache = pre

\* A zero or negative interval met an entry that holds another sample
C5_Witness ==
    /\ BadIntervalCase
    /\ Deref(pre[ArgId]).stats # Deref(arg).Cpu
    /\ cpuUsageCache = pre

\* C6: the read-only lookup returns the rate stored for the container id
\* (absent for no entry or an entry without a rate), whatever the counter and
\* timestamp of the sample passed in, and leaves the cache unchanged.
C6_LookupReturnsStoredRate ==
    op = "getContainerUsageNanoCores" =>
        /\ ret.usage = PreRate
        /\ cpuUsageCache = pre

\* A lookup returned a non-zero rate for a sample other than the cached one
C6_Witness ==
    /\ op = "getContainerUsageNanoCores"
    /\ ret.usage # Nil
    /\ Deref(ret.usage) > 0
    /\ Deref(pre[ArgId]).stats # Deref(arg).Cpu
    /\ ArgCpu.UsageCoreNanoSeconds = Nil

-----------------------------------------------------------------------------
(* Properties of the eviction sweep (SpecSweep)                            *)

WellFormed(rec) == rec # Nil /\ Deref(rec).stats # Nil

Outdated(rec) == now - Deref(Deref(rec).stats).Timestamp > defaultCachePeriod

-----------------------------------------------------------------------------
(* Properties of the dedup filters (SpecDedup)                             *)

\* The positions of a listing whose sandbox has the (Name, Namespace) of the
\* sandbox at position i
PodGroup(i) == {j \in 1..Len(arg) : podRefID(arg[j]) = podRefID(arg[i])}

ReadyInGroup(i) == {j \in PodGroup(i) : arg[j].State = SANDBOX_READY}

\* What the result holds of a set of positions of the listing
Kept(positions) == {j \in positions : arg[j] \in Range(ret)}

NoDuplicates(s) == \A i, j \in 1..Len(s) : s[i] = s[j] => i = j

C8_TerminatedOnlyRemovedWhenRunningExists ==
    op = "removeTerminatedPods" =>
        \A i \in 1..Len(arg) :
            (arg[i].State # SANDBOX_READY /\ ReadyInGroup(i) = {}) =>
                arg[i] \in Range(ret)

\* C9: the result holds exactly the containers of the input that are RUNNING,
\* each once: a container in another state is dropped even as the only one of
\* its identity, and a group without a RUNNING container adds nothing.
C9_ExactlyRunningContainers ==
    op = "removeTerminatedContainers" =>
        /\ Range(ret) = {c \in Range(arg) : c.State = CONTAINER_RUNNING}
        /\ NoDuplicates(ret)

\* A container in state EXITED that is the only one of its identity is
\* dropped, and a RUNNING one of another identity is kept
C9_Witness ==
    /\ op = "removeTerminatedContainers"
    /\ Len(arg) = 2
    /\ arg[1].State = CONTAINER_EXITED
    /\ arg[2].State = CONTAINER_RUNNING
    /\ containerRefID(arg[1]) # containerRefID(arg[2])
    /\ ret = <<arg[2]>>

-----------------------------------------------------------------------------
(* SpecFold: one pass over listings that the accounting subsystem may      *)
(* complete.  The host runs the pod "web" (sandbox p1, containers c1 "app" *)
(* and c2 "sidecar") and the pod "db" (sandbox p2, no container).  p3 is   *)
(* an earlier sandbox of "web" that is no longer ready, and its container  *)
(* c3 is still listed as running.  The runtime lists no container c0.      *)

FoldSandboxes ==
    <<[Id |-> "p1",
       Metadata |-> [Name |-> "web", Uid |-> "u1", Namespace |-> "default"],
       State |-> SANDBOX_READY, CreatedAt |-> 1],
      [Id |-> "p2",
       Metadata |-> [Name |-> "db", Uid |-> "u2", Namespace |-> "default"],
       State |-> SANDBOX_READY, CreatedAt |-> 1],
      [Id |-> "p3",
       Metadata |-> [Name |-> "web", Uid |-> "u3", Namespace |-> "default"],
       State |-> SANDBOX_NOTREADY, CreatedAt |-> 0]>>

FoldContainers ==
    <<[Id |-> "c1", PodSandboxId |-> "p1",
       Labels |-> [PodName |-> "web", PodNamespace |-> "default",
                   ContainerName |-> "app"],
       State |-> CONTAINER_RUNNING, CreatedAt |-> 1],
      [Id |-> "c2", PodSandboxId |-> "p1",
       Labels |-> [PodName |-> "web", PodNamespace |-> "default",
                   ContainerName |-> "sidecar"],
       State |-> CONTAINER_RUNNING, CreatedAt |-> 1],
      [Id |-> "c3", PodSandboxId |-> "p3",
       Labels |-> [PodName |-> "web", PodNamespace |-> "default",
                   ContainerName |-> "app"],
       State |-> CONTAINER_RUNNING, CreatedAt |-> 0]>>

\* The name and the position of a container id in the values below
FoldName(id) == IF id \in {"c1", "c3"} THEN "app"
                ELSE IF id = "c2" THEN "sidecar" ELSE "ghost"

FoldRank(id) == IF id = "c1" THEN 1 ELSE IF id = "c2" THEN 2 ELSE 3

\* The record the runtime lists for a container: a sample taken at
\* SampleInterval, whole ("ok"), without CPU and memory info ("nilCpu") or
\* without the values of its counters ("nilCounter")
FoldRecord(id, shape) ==
    Ptr([Attributes |-> Ptr([Id |-> id,
                             Metadata |-> Ptr([Name |-> FoldName(id)])]),
         Cpu |->
             IF shape = "nilCpu" THEN Nil
             ELSE Ptr([Timestamp |-> SampleInterval,
                       UsageCoreNanoSeconds |->
                           IF shape = "nilCounter" THEN Nil
                           ELSE Ptr(FoldRank(id) * UsageStep)]),
         Memory |->
             IF shape = "nilCpu" THEN Nil
             ELSE Ptr([Timestamp |-> SampleInterval,
                       WorkingSetBytes |->
                           IF shape = "nilCounter" THEN Nil
                           ELSE Ptr(FoldRank(id))]),
         WritableLayer |-> Nil])

\* A record without attributes
FoldNoAttributes ==
    Ptr([Attributes |-> Nil, Cpu |-> Nil, Memory |-> Nil,
         WritableLayer |-> Nil])

FoldRecords ==
    {FoldRecord(id, "ok") : id \in {"c0", "c1", "c2", "c3"}}
        \cup {FoldRecord("c1", shape) : shape \in {"nilCpu", "nilCounter"}}
        \cup {FoldNoAttributes}

\* The stats the runtime lists: at most two records, of two containers
FoldStatsLists ==
    {<<>>} \cup {<<st>> : st \in FoldRecords}
        \cup {list \in {<<st1, st2>> : st1 \in FoldRecords,
                                       st2 \in FoldRecords} :
                 Deref(list[1]).Attributes # Deref(list[2]).Attributes}

\* The info of a cgroup: one reading, taken at SampleInterval
FoldInfo(rank) ==
    [PodManaged |-> TRUE,
     Stats |-> <<[Timestamp |-> SampleInterval,
                  Cpu       |-> Ptr([Total |-> 1000 * rank]),
                  CpuInst   |-> Ptr([Total |-> 10 * rank]),
                  Memory    |-> Ptr([Usage |-> 100 * rank,
                                     WorkingSet |-> 90 * rank,
                                     RSS |-> 80 * rank,
                                     Pgfault |-> 2 * rank,
                                     Pgmajfault |-> rank]),
                  Processes |-> Ptr([ProcessCount |-> rank,
                                     FdCount |-> 2 * rank,
                                     SocketCount |-> 3 * rank,
                                     ThreadsCurrent |-> 4 * rank,
                                     ThreadsMax |-> 5 * rank]),
                  DiskIo    |-> ("sda" :> 50 * rank)]>>]

\* The infos of the accounting subsystem: a pod cgroup named after the UID
\* of "web", one named after its sandbox id, and the cgroups of c1 and c2,
\* that of c2 with stats ("stats") or without any yet ("noStats")
FoldInfos(byUid, bySandboxId, perContainer) ==
    (IF byUid
     THEN [Dir |-> "kubepods", Base |-> "u1", Mount |-> FALSE] :> FoldInfo(4)
     ELSE EmptyCache)
    @@ (IF bySandboxId
        THEN [Dir |-> "kubepods", Base |-> "p1", Mount |-> FALSE] :> FoldInfo(4)
        ELSE EmptyCache)
    @@ (IF perContainer # "none"
        THEN ([Dir |-> "u1", Base |-> "c1", Mount |-> FALSE] :> FoldInfo(1))
             @@ ([Dir |-> "u1", Base |-> "c2", Mount |-> FALSE] :>
                    IF perContainer = "stats" THEN FoldInfo(2)
                    ELSE [PodManaged |-> TRUE, Stats |-> <<>>])
        ELSE EmptyCache)

\* What the upstream services answer
FoldEnvs ==
    {[failing |-> {}, Items |-> FoldSandboxes, Containers |-> FoldContainers,
      Stats |-> stats, Infos |-> FoldInfos(byUid, bySandboxId, perContainer),
      DirFsInfo |-> EmptyCache] :
        stats \in FoldStatsLists, byUid \in BOOLEAN, bySandboxId \in BOOLEAN,
        perContainer \in {"none", "stats", "noStats"}}

\* The cache that an authoritative pass leaves of a sample of c1
FoldSampled(cache, timestamp, usage) ==
    getAndUpdateContainerUsageNanoCores(
        cache,
        Ptr([Attributes |-> Ptr([Id |-> "c1",
                                 Metadata |-> Ptr([Name |-> "app"])]),
             Cpu |-> Ptr([Timestamp |-> timestamp,
                          UsageCoreNanoSeconds |-> Ptr(usage)]),
             Memory |-> Nil, WritableLayer |-> Nil])).cache

\* The cache before the pass: empty, or what authoritative passes left of a
\* sample of c1 taken at time 0, or of that sample and one taken at
\* SampleInterval
FoldCaches ==
    {EmptyCache,
     FoldSampled(EmptyCache, 0, 0),
     FoldSampled(FoldSampled(EmptyCache, 0, 0), SampleInterval, UsageStep)}

\* The time of the pass: that of the samples, or more than ten minutes later
FoldTimes == {SampleInterval, defaultCachePeriod + 2 * SampleInterval}

InitFold ==
    /\ NoTasks
    /\ NoCronjobs
    /\ cpuUsageCache \in FoldCaches
    /\ now \in FoldTimes
    /\ op = "listed"
    /\ arg \in FoldEnvs
    /\ pre = EmptyCache
    /\ ret = NoPassRet
    /\ fetched = <<>>
    /\ mutex = Unlocked
    /\ pc = NoCallers

ListPodStatsOnce ==
    /\ op = "listed"
    /\ \E r \in ListPodStats(cpuUsageCache, arg, now) :
            /\ cpuUsageCache' = r.cache
            /\ op' = "ListPodStats"
            /\ pre' = cpuUsageCache
            /\ ret' = [result |-> r.result, err |-> r.err, panic |-> r.panic]
            /\ fetched' = r.fetched
            /\ UNCHANGED <<now, arg, mutex, pc,
                           taskVars, cronVars>>

ListPodStatsAndUpdateCPUNanoCoreUsageOnce ==
    /\ op = "listed"
    /\ \E r \in ListPodStatsAndUpdateCPUNanoCoreUsage(cpuUsageCache, arg, now) :
            /\ cpuUsageCache' = r.cache
            /\ op' = "ListPodStatsAndUpdateCPUNanoCoreUsage"
            /\ pre' = cpuUsageCache
            /\ ret' = [result |-> r.result, err |-> r.err, panic |-> r.panic]
            /\ fetched' = r.fetched
            /\ UNCHANGED <<now, arg, mutex, pc,
                           taskVars, cronVars>>

ListPodCPUAndMemoryStatsOnce ==
    /\ op = "listed"
    /\ \E r \in ListPodCPUAndMemoryStats(cpuUsageCache, arg, now) :
            /\ cpuUsageCache' = r.cache
            /\ op' = "ListPodCPUAndMemoryStats"
            /\ pre' = cpuUsageCache
            /\ ret' = [result |-> r.result, err |-> r.err, panic |-> r.panic]
            /\ fetched' = r.fetched
            /\ UNCHANGED <<now, arg, mutex, pc,
                           taskVars, cronVars>>

\* Time passes after ListPodStats returned
Elapse ==
    /\ op = "ListPodStats"
    /\ \E t \in FoldTimes :
            /\ t > now
            /\ now' = t
    /\ UNCHANGED <<cpuUsageCache, op, arg, pre, ret, fetched, mutex, pc,
                   taskVars, cronVars>>

\* ListPodStats is called again, the upstream services answering as before
ListPodStatsAgain ==
    /\ op = "ListPodStats"
    /\ \E r \in ListPodStats(cpuUsageCache, arg, now) :
            /\ cpuUsageCache' = r.cache
            /\ op' = "ListPodStats again"
            /\ pre' = cpuUsageCache
            /\ ret' = [result |-> r.result, err |-> r.err, panic |-> r.panic]
            /\ fetched' = r.fetched
            /\ UNCHANGED <<now, arg, mutex, pc,
                           taskVars, cronVars>>

NextFold ==
    \/ ListPodStatsOnce
    \/ ListPodStatsAndUpdateCPUNanoCoreUsageOnce
    \/ ListPodCPUAndMemoryStatsOnce
    \/ Elapse
    \/ ListPodStatsAgain

SpecFold == InitFold /\ [][NextFold]_vars

-----------------------------------------------------------------------------
(* Properties of one pass (SpecFold)                                       *)

\* A pass ran and returned
FoldRan ==
    /\ op \in {"ListPodStats", "ListPodStatsAndUpdateCPUNanoCoreUsage",
               "ListPodCPUAndMemoryStats"}
    /\ ~ret.panic

\* The sandboxes that pod dedup retains, and the containers that container
\* dedup retains
RetainedSandboxes ==
    Range(CHOOSE kept \in removeTerminatedPods(arg.Items) : TRUE)

RetainedContainers ==
    Range(CHOOSE kept \in removeTerminatedContainers(arg.Containers) : TRUE)

\* The retained sandbox that a listed record resolves to, as a set: empty
\* when its container is not retained or the sandbox of its container is not
ResolvedSandbox(st) ==
    {s \in RetainedSandboxes :
        \E c \in RetainedContainers :
            /\ Deref(st).Attributes # Nil
            /\ c.Id = Deref(Deref(st).Attributes).Id
            /\ c.PodSandboxId = s.Id}

\* The positions in the listed stats of the records that resolve to sandbox s
ResolvingTo(s) ==
    {i \in 1..Len(arg.Stats) : s \in ResolvedSandbox(arg.Stats[i])}

\* The elements of a sequence at a set of positions, in their order
RECURSIVE AtPositions(_, _)
AtPositions(s, positions) ==
    IF positions = {} THEN <<>>
    ELSE <<s[Min(positions)]>> \o AtPositions(s, positions \ {Min(positions)})

\* The PodStats of the result
Result == Range(Deref(ret.result))

\* The retained sandbox a PodStats was built from, as a set
SandboxOf(ps) ==
    {s \in RetainedSandboxes :
        /\ s.Metadata.Uid = ps.PodRef.UID
        /\ s.Metadata.Name = ps.PodRef.Name
        /\ s.Metadata.Namespace = ps.PodRef.Namespace}

\* C11: in a pass, a stat record whose container id is not in the container
\* map, or whose container names a sandbox that is not in the sandbox map,
\* gives no ContainerStats and no PodStats and does not make the pass fail:
\* the pass returns a snapshot and no error, every PodStats of the snapshot
\* is that of a retained sandbox, and its Containers are those of the records
\* that resolve to that sandbox, one for each and in their order.
C11_UnresolvedRecordsAreSkipped ==
    FoldRan =>
        /\ ret.err = Nil
        /\ ret.result # Nil
        /\ \A ps \in Result :
               \E s \in SandboxOf(ps) :
                   /\ Len(ps.Containers) = Cardinality(ResolvingTo(s))
                   /\ [i \in 1..Len(ps.Containers) |-> ps.Containers[i].Name]
                          = [i \in 1..Cardinality(ResolvingTo(s)) |->
                                Deref(Deref(Deref(
                                    AtPositions(arg.Stats, ResolvingTo(s))[i]
                                ).Attributes).Metadata).Name]
        /\ \A s \in RetainedSandboxes :
               ResolvingTo(s) # {} => \E ps \in Result : s \in SandboxOf(ps)

\* The record of c3, whose sandbox pod dedup removed, was listed before that
\* of c2: the pass returned the PodStats of "web" with the stats of c2 alone
C11_Witness ==
    /\ FoldRan
    /\ op = "ListPodCPUAndMemoryStats"
    /\ arg.Stats = <<FoldRecord("c3", "ok"), FoldRecord("c2", "ok")>>
    /\ ret.err = Nil
    /\ Len(Deref(ret.result)) = 1
    /\ Len(Deref(ret.result)[1].Containers) = 1
    /\ Deref(ret.result)[1].Containers[1].Name = "sidecar"

-----------------------------------------------------------------------------
(* Two consecutive read-only passes (SpecFold)                             *)

\* CPU stats and memory stats without their timestamp
WithoutTime(stats) ==
    IF stats = Nil THEN Nil
    ELSE Ptr([field \in DOMAIN Deref(stats) \ {"Time"} |-> Deref(stats)[field]])

\* CPU stats without their timestamp and their rate
WithoutTimeAndRate(stats) ==
    IF stats = Nil THEN Nil
    ELSE Ptr([field \in DOMAIN Deref(stats) \ {"Time", "UsageNanoCores"} |->
                 Deref(stats)[field]])

\* What a pass returned, as a set of PodStats without timestamps
Snapshot(r) ==
    [err   |-> r.err # Nil,
     panic |-> r.panic,
     pods  |-> IF r.result = Nil THEN {}
               ELSE {[ps EXCEPT
                         !.CPU = WithoutTime(@),
                         !.Memory = WithoutTime(@),
                         !.Containers =
                             [i \in DOMAIN @ |->
                                 [@[i] EXCEPT !.CPU = WithoutTime(@),
                                              !.Memory = WithoutTime(@)]]] :
                        ps \in Range(Deref(r.result))}]

\* What a pass returned, without timestamps and without rates
SnapshotWithoutRates(r) ==
    [err   |-> r.err # Nil,
     panic |-> r.panic,
     pods  |-> IF r.result = Nil THEN {}
               ELSE {[ps EXCEPT
                         !.CPU = WithoutTimeAndRate(@),
                         !.Memory = WithoutTime(@),
                         !.Containers =
                             [i \in DOMAIN @ |->
                                 [@[i] EXCEPT !.CPU = WithoutTimeAndRate(@),
                                              !.Memory = WithoutTime(@)]]] :
                        ps \in Range(Deref(r.result))}]

\* The step from the return of ListPodStats to the return of the next
\* ListPodStats over the same listings
SecondPass == op = "ListPodStats" /\ op' = "ListPodStats again"

\* C12, as stated: two consecutive ListPodStats passes over the same
\* listings, any time elapsing between them, return sets of PodStats that
\* are equal in every field but the timestamps, the presence and the value of
\* every UsageNanoCores included.
C12_ConsecutivePassesReturnTheSame ==
    [][SecondPass => Snapshot(ret) = Snapshot(ret')]_vars

\* C12, amended: the two passes return sets of PodStats that are equal in
\* every field but the timestamps when the first pass evicted no entry of the
\* cache, and in every field but the timestamps and UsageNanoCores in any
\* case.
C12_ConsecutivePassesSameUnlessEvicted ==
    [][SecondPass =>
          /\ SnapshotWithoutRates(ret) = SnapshotWithoutRates(ret')
          /\ DOMAIN pre \subseteq DOMAIN cpuUsageCache =>
                 Snapshot(ret) = Snapshot(ret')]_vars

\* The second pass ran more than ten minutes after the first and reported, as
\* the first had, the rate that an authoritative pass left in the cache
C12_Witness ==
    /\ op = "ListPodStats again"
    /\ ret.result # Nil
    /\ now > defaultCachePeriod
    /\ DOMAIN pre = {"c1"}
    /\ Deref(pre["c1"]).usageNanoCores # Nil
    /\ \E ps \in Result :
           \E i \in 1..Len(ps.Containers) :
               Deref(ps.Containers[i].CPU).UsageNanoCores
                   = Deref(pre["c1"]).usageNanoCores

-----------------------------------------------------------------------------
(* One PodStats per sandbox (SpecFold)                                     *)

\* The positions in the result of the PodStats of sandbox s
PodStatsOf(s) ==
    {i \in 1..Len(Deref(ret.result)) : s \in SandboxOf(Deref(ret.result)[i])}

\* C13, as stated: the list a successful pass returns holds exactly one
\* PodStats for every sandbox that pod dedup retains, a sandbox that no stat
\* record resolves to included, and none for any other sandbox.
C13_OnePodStatsPerRetainedSandbox ==
    (FoldRan /\ ret.err = Nil) =>
        /\ \A s \in RetainedSandboxes : Cardinality(PodStatsOf(s)) = 1
        /\ \A ps \in Result : SandboxOf(ps) # {}

\* C13, amended: the list a successful pass returns holds exactly one
\* PodStats for every retained sandbox that a stat record resolves to, and
\* none for a retained sandbox that no record resolves to or for any other
\* sandbox.
C13_OnePodStatsPerResolvedSandbox ==
    (FoldRan /\ ret.err = Nil) =>
        /\ \A s \in RetainedSandboxes :
               Cardinality(PodStatsOf(s)) = IF ResolvingTo(s) # {} THEN 1 ELSE 0
        /\ \A ps \in Result : SandboxOf(ps) # {}
        /\ Len(Deref(ret.result))
               = Cardinality({s \in RetainedSandboxes : ResolvingTo(s) # {}})

\* The records of c1 and c2 were listed: the pass returned the PodStats of
\* "web" alone, although pod dedup retains the sandbox of "db" as well
C13_Witness ==
    /\ FoldRan
    /\ arg.Stats = <<FoldRecord("c1", "ok"), FoldRecord("c2", "ok")>>
    /\ Cardinality(RetainedSandboxes) = 2
    /\ Len(Deref(ret.result)) = 1
    /\ Deref(ret.result)[1].PodRef.Name = "web"
    /\ Len(Deref(ret.result)[1].Containers) = 2

-----------------------------------------------------------------------------
(* Malformed records (SpecFold)                                            *)

\* A listed record without attributes, without CPU info or without a
\* cumulative CPU counter
Malformed(st) ==
    \/ Deref(st).Attributes = Nil
    \/ Deref(st).Cpu = Nil
    \/ Deref(Deref(st).Cpu).UsageCoreNanoSeconds = Nil

\* The rates that the result reports for a listed record: the UsageNanoCores
\* of the ContainerStats of its name
ReportedRates(st) ==
    UNION {{Deref(cs.CPU).UsageNanoCores :
               cs \in {c \in Range(ps.Containers) :
                          c.Name =
                              Deref(Deref(Deref(st).Attributes).Metadata).Name}} :
           ps \in Result}

\* C14: a pass whose listing holds a record with nil attributes, with nil CPU
\* info or with a nil cumulative CPU counter completes without error and
\* without crash, reports no rate for that record, and leaves the cache
\* without a new or changed entry for it.
C14_MalformedRecordIsNoRate ==
    (/\ op \in {"ListPodStats", "ListPodStatsAndUpdateCPUNanoCoreUsage",
                "ListPodCPUAndMemoryStats"}
     /\ \E i \in 1..Len(arg.Stats) : Malformed(arg.Stats[i])) =>
        /\ ~ret.panic
        /\ ret.err = Nil
        /\ ret.result # Nil
        /\ \A i \in 1..Len(arg.Stats) :
               Malformed(arg.Stats[i]) =>
                   LET id == Deref(Deref(arg.Stats[i]).Attributes).Id
                   IN  /\ ReportedRates(arg.Stats[i]) \subseteq {Nil}
                       /\ id \in DOMAIN cpuUsageCache =>
                              /\ id \in DOMAIN pre
                              /\ cpuUsageCache[id] = pre[id]

-----------------------------------------------------------------------------
(* SpecLock: the methods of the rate cache called by concurrent callers,   *)
(* one step for taking the lock, one for what the method does while it     *)
(* holds it, one for the deferred release.  A caller that holds no lock is  *)
(* at "idle"; one that waits for the lock is at "RLock" or "Lock"; one that *)
(* holds it is at "lookup", "update" or "sweep" and then, the method's     *)
(* work done, at "RUnlock" or "Unlock".                                    *)

\* The lock a method of the rate cache takes
lockTakenShared(method) == "RLock"

lockTaken(method) ==
    IF method = "getContainerUsageNanoCores" THEN "RLock" ELSE "Lock"

\* Where a method is once it holds the lock
sectionOf(method) ==
    IF method = "getContainerUsageNanoCores" THEN "lookup"
    ELSE IF method = "getAndUpdateContainerUsageNanoCores" THEN "update"
    ELSE "sweep"

\* The samples handed to the methods: of c1, taken at time 0
LockStats == {st \in StatsAt(0) : Deref(Deref(st).Attributes).Id = "c1"}

InitLock ==
    /\ NoTasks
    /\ NoCronjobs
    /\ cpuUsageCache = EmptyCache
    /\ now \in {0, defaultCachePeriod + SampleInterval}
    /\ op = "init"
    /\ arg = Nil
    /\ pre = EmptyCache
    /\ ret = NoRet
    /\ fetched = <<>>
    /\ mutex = Unlocked
    /\ pc = NoCallers

\* A caller enters getContainerUsageNanoCores or
\* getAndUpdateContainerUsageNanoCores with a sample whose attributes, CPU
\* info and counter are not nil, or cleanupOutdatedCaches
Enter(th) ==
    /\ pc[th].at = "idle"
    /\ \E method \in {"getContainerUsageNanoCores",
                      "getAndUpdateContainerUsageNanoCores",
                      "cleanupOutdatedCaches"} :
           \E stats \in {st \in LockStats :
                            Deref(Deref(st).Cpu).UsageCoreNanoSeconds # Nil} :
               pc' = [pc EXCEPT ![th] =
                         [at |-> lockTaken(method), method |-> method,
                          stats |-> IF method = "cleanupOutdatedCaches"
                                    THEN Nil ELSE stats]]
    /\ UNCHANGED <<cpuUsageCache, now, op, arg, pre, ret, fetched, mutex,
                   taskVars, cronVars>>

\* p.mutex.RLock(): granted when no writer holds the lock
RLock(th) ==
    /\ pc[th].at = "RLock"
    /\ ~mutex.w
    /\ mutex' = [mutex EXCEPT !.readerCount = @ + 1]
    /\ pc' = [pc EXCEPT ![th].at = sectionOf(pc[th].method)]
    /\ UNCHANGED <<cpuUsageCache, now, op, arg, pre, ret, fetched,
                   taskVars, cronVars>>

\* p.mutex.Lock(): granted when no writer and no reader holds the lock
Lock(th) ==
    /\ pc[th].at = "Lock"
    /\ ~mutex.w
    /\ mutex.readerCount = 0
    /\ mutex' = [mutex EXCEPT !.w = TRUE]
    /\ pc' = [pc EXCEPT ![th].at = sectionOf(pc[th].method)]
    /\ UNCHANGED <<cpuUsageCache, now, op, arg, pre, ret, fetched,
                   taskVars, cronVars>>

\* getContainerUsageNanoCores between RLock and RUnlock: it reads the cache
Lookup(th) ==
    /\ pc[th].at = "lookup"
    /\ LET r == getContainerUsageNanoCores(cpuUsageCache, pc[th].stats)
       IN  /\ op' = "getContainerUsageNanoCores"
           /\ arg' = pc[th].stats
           /\ pre' = cpuUsageCache
           /\ ret' = [usage |-> r.usage, err |-> Nil, panic |-> FALSE]
    /\ pc' = [pc EXCEPT ![th].at = "RUnlock"]
    /\ UNCHANGED <<cpuUsageCache, now, fetched, mutex,
                   taskVars, cronVars>>

\* getAndUpdateContainerUsageNanoCores between Lock and Unlock: it reads the
\* cache and inserts or replaces an entry
Update(th) ==
    /\ pc[th].at = "update"
    /\ LET r == getAndUpdateContainerUsageNanoCores(cpuUsageCache, pc[th].stats)
       IN  /\ cpuUsageCache' = r.cache
           /\ op' = "getAndUpdateContainerUsageNanoCores"
           /\ arg' = pc[th].stats
           /\ pre' = cpuUsageCache
           /\ ret' = [usage |-> r.usage, err |-> r.err, panic |-> FALSE]
    /\ pc' = [pc EXCEPT ![th].at = "Unlock"]
    /\ UNCHANGED <<now, fetched, mutex,
                   taskVars, cronVars>>

\* cleanupOutdatedCaches between Lock and Unlock: it reads the cache and
\* deletes entries
Sweep(th) ==
    /\ pc[th].at = "sweep"
    /\ \E r \in cleanupOutdatedCaches(cpuUsageCache, now) :
           /\ cpuUsageCache' = r.cache
           /\ op' = "cleanupOutdatedCaches"
           /\ arg' = Nil
           /\ pre' = cpuUsageCache
           /\ ret' = [usage |-> Nil, err |-> Nil, panic |-> r.panic]
    /\ pc' = [pc EXCEPT ![th].at = "Unlock"]
    /\ UNCHANGED <<now, fetched, mutex,
                   taskVars, cronVars>>

\* defer p.mutex.RUnlock()
RUnlock(th) ==
    /\ pc[th].at = "RUnlock"
    /\ mutex' = [mutex EXCEPT !.readerCount = @ - 1]
    /\ pc' = [pc EXCEPT ![th] = [at |-> "idle"]]
    /\ UNCHANGED <<cpuUsageCache, now, op, arg, pre, ret, fetched,
                   taskVars, cronVars>>

\* defer p.mutex.Unlock()
Unlock(th) ==
    /\ pc[th].at = "Unlock"
    /\ mutex' = [mutex EXCEPT !.w = FALSE]
    /\ pc' = [pc EXCEPT ![th] = [at |-> "idle"]]
    /\ UNCHANGED <<cpuUsageCache, now, op, arg, pre, ret, fetched,
                   taskVars, cronVars>>

NextLock ==
    \E th \in Callers :
        \/ Enter(th)
        \/ RLock(th)
        \/ Lock(th)
        \/ Lookup(th)
        \/ Update(th)
        \/ Sweep(th)
        \/ RUnlock(th)
        \/ Unlock(th)

SpecLock == InitLock /\ [][NextLock]_vars

-----------------------------------------------------------------------------
(* Lock discipline (SpecLock)                                              *)

\* The callers that are between taking the lock and releasing it: those that
\* only read the cache, and those that change it
Readers == {th \in Callers : pc[th].at \in {"lookup", "RUnlock"}}

Writers == {th \in Callers : pc[th].at \in {"update", "sweep", "Unlock"}}

\* C15: a caller that reads cpuUsageCache holds the lock in shared or in
\* exclusive mode, and a caller that inserts, replaces or deletes holds it in
\* exclusive mode; an updater or the sweep is never inside its critical
\* section together with a reader, an updater or a sweep.
C15_LockDiscipline ==
    /\ \A th \in Callers :
           /\ pc[th].at = "lookup" => mutex.readerCount > 0 \/ mutex.w
           /\ pc[th].at \in {"update", "sweep"} => mutex.w
    /\ Writers # {} =>
           /\ Cardinality(Writers) = 1
           /\ Readers = {}
    /\ mutex.readerCount = Cardinality(Readers)
    /\ mutex.w <=> Writers # {}

\* Two lookups are inside their critical sections while an updater waits
C15_Witness ==
    /\ pc["t1"].at = "lookup"
    /\ pc["t2"].at = "lookup"
    /\ pc["t3"].at = "Lock"
    /\ pc["t3"].method = "getAndUpdateContainerUsageNanoCores"
    /\ mutex.readerCount = 2
    /\ cpuUsageCache # EmptyCache

-----------------------------------------------------------------------------
(* SpecReadOnly: the provider when ListPodStatsAndUpdateCPUNanoCoreUsage   *)
(* is never called: ListPodStats and ListPodCPUAndMemoryStats, one pass    *)
(* each, in any order, and the passing of time.                            *)

DoListPodCPUAndMemoryStats ==
    \E env \in PassEnvs(now) :
        \E r \in ListPodCPUAndMemoryStats(cpuUsageCache, env, now) :
            /\ cpuUsageCache' = r.cache
            /\ op' = "ListPodCPUAndMemoryStats"
            /\ arg' = env
            /\ pre' = cpuUsageCache
            /\ ret' = [result |-> r.result, err |-> r.err, panic |-> r.panic]
            /\ fetched' = r.fetched
            /\ UNCHANGED <<now, mutex, pc,
                           taskVars, cronVars>>

NextReadOnly == DoListPodStats \/ DoListPodCPUAndMemoryStats \/ PassTick

SpecReadOnly == Init /\ [][NextReadOnly]_vars

\* The ContainerStats of what the last pass returned
ReturnedContainers ==
    IF ret.result = Nil THEN {}
    ELSE UNION {Range(ps.Containers) : ps \in Range(Deref(ret.result))}

-----------------------------------------------------------------------------
(* Retention of the entries an authoritative pass refreshes (SpecFold)     *)

\* The authoritative pass ran and returned a snapshot
AuthoritativeRan ==
    /\ op = "ListPodStatsAndUpdateCPUNanoCoreUsage"
    /\ ~ret.panic
    /\ ret.err = Nil

\* The listed records that the pass processed and that have a cumulative
\* CPU counter: the pass created or refreshed the cache entry of each
Refreshed ==
    {st \in Range(arg.Stats) :
        /\ ResolvedSandbox(st) # {}
        /\ Deref(st).Cpu # Nil
        /\ Deref(Deref(st).Cpu).UsageCoreNanoSeconds # Nil}

\* The timestamp of the sample that the update of a record leaves in the
\* entry of its container
HeldTimestamp(st) ==
    Deref(Deref(getAndUpdateContainerUsageNanoCores(pre, st)
                    .cache[Deref(Deref(st).Attributes).Id]).stats).Timestamp

\* C17, as stated: a container whose stat record the authoritative pass
\* processed still has its cache entry when the pass returns, whatever the
\* timestamp of the sample.
C17_RefreshedEntrySurvivesThePass ==
    AuthoritativeRan =>
        \A st \in Refreshed :
            Deref(Deref(st).Attributes).Id \in DOMAIN cpuUsageCache

\* C17, amended: a container whose stat record the authoritative pass
\* processed still has its cache entry when the pass returns exactly when
\* the sample that the entry holds is stamped at most ten minutes before the
\* wall-clock time of the pass; the entry then holds that sample.
C17_RefreshedEntrySurvivesIfStampedRecently ==
    AuthoritativeRan =>
        \A st \in Refreshed :
            LET id == Deref(Deref(st).Attributes).Id
            IN  /\ id \in DOMAIN cpuUsageCache
                       <=> now - HeldTimestamp(st) <= defaultCachePeriod
                /\ id \in DOMAIN cpuUsageCache =>
                       Deref(Deref(cpuUsageCache[id]).stats).Timestamp
                           = HeldTimestamp(st)

\* The authoritative pass computed and reported the rate of c1 from a sample
\* stamped more than ten minutes before the pass, and returned without the
\* entry of c1
C17_Witness ==
    /\ AuthoritativeRan
    /\ now - SampleInterval > defaultCachePeriod
    /\ arg.Stats = <<FoldRecord("c1", "ok")>>
    /\ arg.Infos = EmptyCache
    /\ "c1" \in DOMAIN pre
    /\ "c1" \notin DOMAIN cpuUsageCache
    /\ \E ps \in Result : Deref(ps.Containers[1].CPU).UsageNanoCores # Nil

-----------------------------------------------------------------------------
(* Aggregation of the pod's stats (SpecFold)                               *)

\* The sum of a sequence of numbers
RECURSIVE SumSeq(_)
SumSeq(s) == IF s = <<>> THEN 0 ELSE Head(s) + SumSeq(Tail(s))

\* The sum of the values that f gives for the elements of a sequence
SumOver(s, f(_)) == SumSeq([i \in 1..Len(s) |-> f(s[i])])

\* The sum of a field of the CPU or memory stats of ContainerStats, an
\* absent value counting as 0
SumOfField(containers, stats, field) ==
    LET value(cs) == IF cs[stats] = Nil THEN 0
                     ELSE getUint64Value(Deref(cs[stats])[field])
    IN  SumOver(containers, value)

\* The fields that addPodCPUMemoryStats sums
SummedFields ==
    {<<"CPU", "UsageCoreNanoSeconds">>, <<"CPU", "UsageNanoCores">>,
     <<"Memory", "AvailableBytes">>, <<"Memory", "UsageBytes">>,
     <<"Memory", "WorkingSetBytes">>, <<"Memory", "RSSBytes">>,
     <<"Memory", "PageFaults">>, <<"Memory", "MajorPageFaults">>}

\* The pod's field is the sum of that field of its listed ContainerStats
SumsItsContainers(ps) ==
    \A f \in SummedFields :
        /\ ps[f[1]] # Nil
        /\ Deref(ps[f[1]])[f[2]] = Ptr(SumOfField(ps.Containers, f[1], f[2]))

\* The accounting subsystem has no info of the pod cgroup of a PodStats
NoPodCgroupInfo(ps) ==
    getCadvisorPodInfoFromPodUID(ps.PodRef.UID, arg.Infos) = Nil

\* The accounting subsystem has no info of the containers of the listed
\* records
NoContainerInfo ==
    \A st \in Range(arg.Stats) :
        Deref(Deref(st).Attributes).Id \notin DOMAIN getCRICadvisorStats(arg.Infos)

\* The records listed for the sandbox of a PodStats, in their order
RecordsOf(ps) ==
    AtPositions(arg.Stats,
                UNION {ResolvingTo(s) : s \in SandboxOf(ps)})

\* C18, as stated: for a pod without pod-level accounting info, the pod's
\* CPU UsageCoreNanoSeconds and UsageNanoCores and its memory byte and page
\* fault fields each equal the sum of the same field over the ContainerStats
\* listed in its Containers, those whose CPU and memory come from
\* per-container accounting info included.
C18_PodSumsItsListedContainers ==
    FoldRan =>
        \A ps \in Result : NoPodCgroupInfo(ps) => SumsItsContainers(ps)

\* C18, amended: for a pod without pod-level accounting info, those fields
\* equal the sums over its listed ContainerStats when none of its containers
\* has per-container accounting info; in any case the pod's
\* UsageCoreNanoSeconds and WorkingSetBytes are the sums of the values of the
\* runtime's records, whatever the accounting info put in the listed
\* ContainerStats.
C18_PodSumsTheRuntimeValues ==
    FoldRan =>
        \A ps \in Result :
            NoPodCgroupInfo(ps) =>
                /\ NoContainerInfo => SumsItsContainers(ps)
                /\ LET counter(st) ==
                           IF Deref(st).Cpu = Nil THEN 0
                           ELSE getUint64Value(
                                    Deref(Deref(st).Cpu).UsageCoreNanoSeconds)
                       workingSet(st) ==
                           IF Deref(st).Memory = Nil THEN 0
                           ELSE getUint64Value(
                                    Deref(Deref(st).Memory).WorkingSetBytes)
                   IN  /\ Deref(ps.CPU).UsageCoreNanoSeconds
                              = Ptr(SumOver(RecordsOf(ps), counter))
                       /\ Deref(ps.Memory).WorkingSetBytes
                              = Ptr(SumOver(RecordsOf(ps), workingSet))

\* An authoritative pass folded c1, whose rate it computed, and c2 into the
\* pod "web", for which the accounting subsystem has no info
C18_Witness ==
    /\ FoldRan
    /\ op = "ListPodStatsAndUpdateCPUNanoCoreUsage"
    /\ arg.Infos = EmptyCache
    /\ arg.Stats = <<FoldRecord("c1", "ok"), FoldRecord("c2", "ok")>>
    /\ \E ps \in Result :
           /\ Len(ps.Containers) = 2
           /\ Deref(ps.Containers[1].CPU).UsageNanoCores # Nil
           /\ Deref(ps.CPU).UsageNanoCores
                  = Deref(ps.Containers[1].CPU).UsageNanoCores
           /\ Deref(ps.CPU).UsageCoreNanoSeconds = Ptr(3 * UsageStep)
           /\ Deref(ps.Memory).WorkingSetBytes = Ptr(3)


\* The info of the pod cgroup that addDiskIoStats and addProcessStats look up
\* for a PodStats: that of the id of its sandbox; nil when there is none
PodLevelInfo(ps) ==
    getCadvisorPodInfoFromPodUID((CHOOSE s \in SandboxOf(ps) : TRUE).Id,
                                 arg.Infos)

\* C19: when pod-level accounting info is available for a sandbox, the pod's
\* process stats and disk I/O stats at the end of the pass are those of the
\* pod-level info exactly, however many containers the pod has: no
\* per-container process count or disk I/O counter is added to them.
C19_PodLevelProcessAndDiskIoAreExact ==
    FoldRan =>
        \A ps \in Result :
            PodLevelInfo(ps) # Nil =>
                /\ ps.ProcessStats
                       = cadvisorInfoToProcessStats(Deref(PodLevelInfo(ps)))
                /\ ps.DiskIo
                       = cadvisorInfoToDiskIoStats(Deref(PodLevelInfo(ps)))


\* The sum of a process count of ContainerStats, absent process stats
\* counting as 0
SumOfCount(containers, field) ==
    LET value(cs) == IF cs.ProcessStats = Nil THEN 0
                     ELSE Deref(cs.ProcessStats)[field]
    IN  SumOver(containers, value)

\* C20: when the accounting subsystem has the info of the pod cgroup that
\* addPodCPUMemoryStats looks up, the pod's CPU and memory stats at the end
\* of the pass are those of that info exactly, whatever the containers
\* folded in, their number and their order; when it has no info of the pod
\* cgroup that addProcessStats looks up, each of the pod's process counts
\* (ProcessCount, FdCount, SocketCount, ThreadsCurrent, ThreadsMax) is the
\* sum of that count over the containers folded in.
C20_PodLevelCPUAndMemoryElseSummedCounts ==
    FoldRan =>
        \A ps \in Result :
            /\ ~NoPodCgroupInfo(ps) =>
                   LET info == getCadvisorPodInfoFromPodUID(ps.PodRef.UID,
                                                            arg.Infos)
                       cm   == cadvisorInfoToCPUandMemoryStats(Deref(info))
                   IN  ps.CPU = cm.cpu /\ ps.Memory = cm.memory
            /\ PodLevelInfo(ps) = Nil =>
                   /\ ps.ProcessStats # Nil
                   /\ \A field \in {"ProcessCount", "FdCount", "SocketCount",
                                    "ThreadsCurrent", "ThreadsMax"} :
                          Deref(ps.ProcessStats)[field]
                              = SumOfCount(ps.Containers, field)

\* c2 and then c1 were folded into the pod "web": its CPU and memory stats
\* are those of its pod cgroup and its process counts the sums of those of
\* the cgroups of c2 and c1
C20_Witness ==
    /\ FoldRan
    /\ arg.Stats = <<FoldRecord("c2", "ok"), FoldRecord("c1", "ok")>>
    /\ arg.Infos = FoldInfos(TRUE, FALSE, "stats")
    /\ \E ps \in Result :
           /\ Len(ps.Containers) = 2
           /\ ps.CPU = cadvisorInfoToCPUandMemoryStats(FoldInfo(4)).cpu
           /\ ps.Memory = cadvisorInfoToCPUandMemoryStats(FoldInfo(4)).memory
           /\ Deref(ps.ProcessStats).ProcessCount = 3
           /\ Deref(ps.ProcessStats).ThreadsMax = 15


\* C21: in the fallback sum of the containers' values into the pod's, an
\* absent field of a container contributes 0, and a field of the pod's CPU or
\* memory stats is present only if at least one container folded in reported
\* that field: when the field is absent from every container folded in, the
\* pod's field is absent too, and not a present 0.
C21_PodFieldPresentOnlyIfReported ==
    FoldRan =>
        \A ps \in Result :
            NoPodCgroupInfo(ps) /\ NoContainerInfo =>
                \A f \in SummedFields :
                    LET reported ==
                            \E i \in 1..Len(ps.Containers) :
                                /\ ps.Containers[i][f[1]] # Nil
                                /\ Deref(ps.Containers[i][f[1]])[f[2]] # Nil
                    IN  /\ ps[f[1]] # Nil
                        /\ Deref(ps[f[1]])[f[2]] =
                               IF reported
                               THEN Ptr(SumOfField(ps.Containers, f[1], f[2]))
                               ELSE Nil


\* The ContainerStats of a PodStats with the records they were made from
Made(ps) ==
    {<<ps.Containers[i], RecordsOf(ps)[i]>> : i \in 1..Len(ps.Containers)}

\* The accounting subsystem has CPU and memory stats that
\* addCadvisorContainerStats puts in the ContainerStats of a record
Replaced(st) ==
    LET caInfos == getCRICadvisorStats(arg.Infos)
        id      == Deref(Deref(st).Attributes).Id
    IN  /\ id \in DOMAIN caInfos
        /\ cadvisorInfoToCPUandMemoryStats(caInfos[id]).cpu # Nil

\* C22: every ContainerStats of a returned snapshot has a CPU and a Memory
\* record; when the runtime's record has no CPU info and no stats of the
\* accounting subsystem replace it, the CPU record is the placeholder, its
\* cumulative counter a present 0 and its rate a present 0 whatever the cache
\* holds, and the pass leaves the cache entry of the container as it was,
\* unless the sweep removes it.
C22_ContainerStatsNeverNilAndPlaceholder ==
    FoldRan =>
        \A ps \in Result :
            \A m \in Made(ps) :
                /\ m[1].CPU # Nil
                /\ m[1].Memory # Nil
                /\ Deref(m[2]).Cpu = Nil /\ ~Replaced(m[2]) =>
                       LET id == Deref(Deref(m[2]).Attributes).Id
                       IN  /\ Deref(m[1].CPU).UsageCoreNanoSeconds = Ptr(0)
                           /\ Deref(m[1].CPU).UsageNanoCores = Ptr(0)
                           /\ Deref(m[1].CPU).Time
                                  \in {NewTime(t) : t \in FoldTimes}
                           /\ id \in DOMAIN cpuUsageCache =>
                                  /\ id \in DOMAIN pre
                                  /\ cpuUsageCache[id] = pre[id]

\* An authoritative pass listed a record of c1 without CPU info while the
\* cache held a rate of c1: the ContainerStats has the placeholder and the
\* cache entry is as it was; c2, whose cgroup has no stats yet, kept the CPU
\* record made from the runtime's record
C22_Witness ==
    /\ FoldRan
    /\ op = "ListPodStatsAndUpdateCPUNanoCoreUsage"
    /\ arg.Stats = <<FoldRecord("c1", "nilCpu"), FoldRecord("c2", "ok")>>
    /\ arg.Infos = FoldInfos(FALSE, FALSE, "none")
    /\ "c1" \in DOMAIN pre
    /\ Deref(pre["c1"]).usageNanoCores # Nil
    /\ "c1" \in DOMAIN cpuUsageCache
    /\ cpuUsageCache["c1"] = pre["c1"]
    /\ \E ps \in Result :
           /\ Len(ps.Containers) = 2
           /\ Deref(ps.Containers[1].CPU).UsageNanoCores = Ptr(0)
           /\ Deref(ps.Containers[2].CPU).UsageCoreNanoSeconds
                  = Ptr(2 * UsageStep)


-----------------------------------------------------------------------------
(* One pass, statement by statement (SpecSteps)                            *)

\* The entry points
EntryPoints ==
    {"ListPodStats", "ListPodStatsAndUpdateCPUNanoCoreUsage",
     "ListPodCPUAndMemoryStats"}

\* The upstream fetches of an entry point, in the order of the code
fetchesOf(entry) ==
    IF entry = "ListPodCPUAndMemoryStats" THEN listPodCPUAndMemoryStatsFetches
    ELSE listPodStatsFetches

\* Whether the pass of an entry point updates the CPU nano core usage
updatesOf(entry) == entry = "ListPodStatsAndUpdateCPUNanoCoreUsage"

\* After every record the pass goes to the sweep
afterRecordSweeping(i, n) == "sweep"

\* "for _, stats := range ...Stats { ... }; p.cleanupOutdatedCaches()": where
\* the pass is once i - 1 of the n listed records are processed
afterRecord(i, n) == IF i <= n THEN "loop" ELSE "sweep"

\* What the upstream services answer: as in a fold, no fetch or one of
\* them failing
StepEnvs ==
    {[e EXCEPT !.failing = f] :
        e \in {x \in FoldEnvs :
                  x.Infos \in {FoldInfos(FALSE, FALSE, "none"),
                               FoldInfos(TRUE, TRUE, "stats")}},
        f \in {{}} \cup {{name} : name \in Range(listPodStatsFetches)}}

\* The caller t1 has entered an entry point: it is about to issue fetch k of
\* it; i is the position in the listed stats, pods is sandboxIDToPodStats,
\* fsIDtoInfo is the table of the pass, nil in ListPodCPUAndMemoryStats, and
\* sweeps counts the runs of cleanupOutdatedCaches in the pass
InitSteps ==
    /\ NoTasks
    /\ NoCronjobs
    /\ cpuUsageCache \in FoldCaches
    /\ now \in FoldTimes
    /\ op \in EntryPoints
    /\ arg \in StepEnvs
    /\ pre = cpuUsageCache
    /\ ret = NoPassRet
    /\ fetched = <<>>
    /\ mutex = Unlocked
    /\ pc = [NoCallers EXCEPT !["t1"] =
                [at |-> "fetch", k |-> 1, i |-> 1, sweeps |-> 0,
                 podSandboxMap |-> EmptyCache, containerMap |-> EmptyCache,
                 fsIDtoInfo |-> IF op = "ListPodCPUAndMemoryStats" THEN Nil
                                ELSE Ptr(EmptyCache),
                 pods |-> EmptyCache]]

\* One upstream fetch and its "if err != nil { return nil, ... }"; the
\* listed sandboxes and containers are deduplicated into their maps
FetchStep ==
    /\ pc["t1"].at = "fetch"
    /\ LET order == fetchesOf(op)
           k     == pc["t1"].k
           name  == order[k]
       IN  /\ fetched' = Append(fetched, name)
           /\ IF name \in arg.failing
              THEN /\ ret' = [result |-> Nil, err |-> Ptr(name),
                              panic |-> FALSE]
                   /\ pc' = [pc EXCEPT !["t1"].at = "done"]
              ELSE /\ ret' = ret
                   /\ \E podSandboxes \in removeTerminatedPods(arg.Items),
                         containers \in removeTerminatedContainers(arg.Containers) :
                          pc' = [pc EXCEPT
                                    !["t1"].k = k + 1,
                                    !["t1"].at =
                                        IF k < Len(order) THEN "fetch"
                                        ELSE afterRecord(1, Len(arg.Stats)),
                                    !["t1"].podSandboxMap =
                                        IF name = "ListPodSandbox"
                                        THEN MapById(podSandboxes) ELSE @,
                                    !["t1"].containerMap =
                                        IF name = "ListContainerStats"
                                        THEN MapById(containers) ELSE @]
    /\ UNCHANGED <<cpuUsageCache, now, op, arg, pre, mutex,
                   taskVars, cronVars>>

\* One iteration of the loop over the listed stats
RecordStep ==
    /\ pc["t1"].at = "loop"
    /\ LET i == pc["t1"].i
           step(next) ==
               IF next.panic
               THEN /\ ret' = [result |-> Nil, err |-> Nil, panic |-> TRUE]
                    /\ pc' = [pc EXCEPT !["t1"].at = "done"]
                    /\ UNCHANGED <<cpuUsageCache, fetched>>
               ELSE /\ ret' = ret
                    /\ cpuUsageCache' = next.cache
                    /\ fetched' = fetched \o next.queries
                    /\ pc' = [pc EXCEPT
                                 !["t1"].pods = next.pods,
                                 !["t1"].fsIDtoInfo = next.fsIDtoInfo,
                                 !["t1"].i = i + 1,
                                 !["t1"].at =
                                     afterRecord(i + 1, Len(arg.Stats))]
       IN  step(processStats([cache |-> cpuUsageCache,
                              pods |-> pc["t1"].pods,
                              fsIDtoInfo |-> pc["t1"].fsIDtoInfo,
                              queries |-> <<>>, panic |-> FALSE],
                             arg.Stats[i], pc["t1"].containerMap,
                             pc["t1"].podSandboxMap, arg,
                             updatesOf(op), now))
    /\ UNCHANGED <<now, op, arg, pre, mutex,
                   taskVars, cronVars>>

\* p.cleanupOutdatedCaches()
SweepStep ==
    /\ pc["t1"].at = "sweep"
    /\ \E swept \in cleanupOutdatedCaches(cpuUsageCache, now) :
           /\ cpuUsageCache' = swept.cache
           /\ IF swept.panic
              THEN /\ ret' = [result |-> Nil, err |-> Nil, panic |-> TRUE]
                   /\ pc' = [pc EXCEPT !["t1"].at = "done",
                                       !["t1"].sweeps = @ + 1]
              ELSE /\ ret' = ret
                   /\ pc' = [pc EXCEPT !["t1"].at = "return",
                                       !["t1"].sweeps = @ + 1]
    /\ UNCHANGED <<now, op, arg, pre, fetched, mutex,
                   taskVars, cronVars>>

\* "for _, s := range sandboxIDToPodStats { result = append(result, *s) };
\* return result, nil"
ReturnStep ==
    /\ pc["t1"].at = "return"
    /\ \E order \in Orderings(DOMAIN pc["t1"].pods) :
           ret' = [result |-> Ptr([j \in 1..Len(order) |->
                                      pc["t1"].pods[order[j]]]),
                   err |-> Nil, panic |-> FALSE]
    /\ pc' = [pc EXCEPT !["t1"].at = "done"]
    /\ UNCHANGED <<cpuUsageCache, now, op, arg, pre, fetched, mutex,
                   taskVars, cronVars>>

NextSteps == FetchStep \/ RecordStep \/ SweepStep \/ ReturnStep

SpecSteps == InitSteps /\ [][NextSteps]_vars

\* C23: on a pass of listPodStats or of ListPodCPUAndMemoryStats that
\* succeeds, the eviction sweep runs exactly once, after the last listed
\* record is processed and before the result is returned; on a pass that
\* fails on the error of a fetch, the sweep does not run.
C23_SweepOnceAfterTheLoopOfASuccessfulPass ==
    [][LET before == pc["t1"]
           after  == pc'["t1"]
       IN  /\ after.sweeps # before.sweeps =>
                  /\ before.sweeps = 0
                  /\ after.sweeps = 1
                  /\ before.i = Len(arg.Stats) + 1
                  /\ ret.result = Nil
                  /\ ret'.result = Nil
           /\ after.i # before.i => before.sweeps = 0
           /\ after.at = "done" =>
                  /\ ret'.err # Nil => after.sweeps = 0
                  /\ ret'.result # Nil =>
                         /\ ret'.err = Nil
                         /\ after.sweeps = 1
                         /\ after.i = Len(arg.Stats) + 1]_vars

\* A pass over two records has returned its result after one sweep
C23_Witness ==
    /\ pc["t1"].at = "done"
    /\ ret.result # Nil
    /\ Len(arg.Stats) = 2
    /\ pc["t1"].i = 3
    /\ pc["t1"].sweeps = 1
    /\ cpuUsageCache # pre

\* A pass has returned the error of its third fetch without a sweep
C23_WitnessOfFailure ==
    /\ pc["t1"].at = "done"
    /\ ret.err = Ptr("ListContainerStats")
    /\ pc["t1"].sweeps = 0

-----------------------------------------------------------------------------
(* SpecFs: one pass over records that carry the writable layer of their    *)
(* container.  The sandboxes, the containers and the entry points are      *)
(* those of SpecFold.                                                      *)

\* Longest list of stats of SpecFs
MaxFsRecords == 2

\* The mountpoints of the filesystems of the writable layers
Mountpoints == {"/var/lib/containerd", "/data"}

\* The record the runtime lists for a container: whole, and without a
\* writable layer ("none"), with a layer that has no filesystem identifier
\* ("noFsId") or with a layer on the filesystem of a mountpoint
FsRecord(id, layer) ==
    Ptr([Deref(FoldRecord(id, "ok")) EXCEPT !.WritableLayer =
            IF layer = "none" THEN Nil
            ELSE Ptr([Timestamp  |-> SampleInterval,
                      FsId       |-> IF layer = "noFsId" THEN Nil
                                     ELSE Ptr([Mountpoint |-> layer]),
                      UsedBytes  |-> Ptr(7 * FoldRank(id)),
                      InodesUsed |-> Ptr(3 * FoldRank(id))])])

\* The records of c1 and c2, and one of c3, whose sandbox is not retained
FsRecords ==
    {FsRecord(id, layer) : id \in {"c1", "c2"},
                           layer \in {"none", "noFsId"} \cup Mountpoints}
        \cup {FsRecord("c3", "/data")}

\* The stats the runtime lists: at most MaxFsRecords records
FsStatsLists ==
    UNION {[1..n -> FsRecords] : n \in 0..MaxFsRecords}

\* The info of the filesystem of a mountpoint
FsInfo(mountpoint) ==
    [Available  |-> IF mountpoint = "/data" THEN 40 ELSE 60,
     Capacity   |-> 100,
     InodesFree |-> Ptr(IF mountpoint = "/data" THEN 4 ELSE 6),
     Inodes     |-> Ptr(10)]

\* What GetDirFsInfo answers for each mountpoint: the info of its
\* filesystem, or an error
FsAnswers ==
    {[m \in Mountpoints |-> IF m \in failed THEN Nil ELSE Ptr(FsInfo(m))] :
        failed \in SUBSET Mountpoints}

\* What the upstream services answer
FsEnvs ==
    {[failing |-> {}, Items |-> FoldSandboxes, Containers |-> FoldContainers,
      Stats |-> stats, Infos |-> FoldInfos(FALSE, FALSE, "none"),
      DirFsInfo |-> answers] :
        stats \in FsStatsLists, answers \in FsAnswers}

InitFs ==
    /\ NoTasks
    /\ NoCronjobs
    /\ cpuUsageCache = EmptyCache
    /\ now = SampleInterval
    /\ op = "listed"
    /\ arg \in FsEnvs
    /\ pre = EmptyCache
    /\ ret = NoPassRet
    /\ fetched = <<>>
    /\ mutex = Unlocked
    /\ pc = NoCallers

SpecFs == InitFs /\ [][NextFold]_vars

-----------------------------------------------------------------------------
(* Properties of the filesystem lookups of a pass (SpecFs)                 *)

\* The mountpoints that the pass queried GetDirFsInfo for, in the order of
\* the queries
DirFsInfoQueries == SelectSeq(fetched, LAMBDA f : f \in Mountpoints)

\* The mountpoints of the filesystem identifiers of the listed records for
\* which the pass makes a ContainerStats
MountpointsOfFolded ==
    {Deref(Deref(Deref(st).WritableLayer).FsId).Mountpoint :
        st \in {x \in Range(arg.Stats) :
                   /\ ResolvedSandbox(x) # {}
                   /\ Deref(x).WritableLayer # Nil
                   /\ Deref(Deref(x).WritableLayer).FsId # Nil}}

\* C24: within one pass, GetDirFsInfo is queried at most once for each
\* filesystem identifier, however many records carry the identifier and
\* also when the lookup failed: the pass queries each mountpoint of the
\* records it folds exactly once (none in ListPodCPUAndMemoryStats, which
\* has no table).  The table is local to the pass: the next pass queries
\* the same mountpoints again.
C24_OneLookupPerFilesystemAndPass ==
    [][(/\ op' \in {"ListPodStats", "ListPodStatsAndUpdateCPUNanoCoreUsage",
                    "ListPodCPUAndMemoryStats", "ListPodStats again"}
        /\ op' # op
        /\ ~ret'.panic)
       => /\ \A i, j \in 1..Len(DirFsInfoQueries') :
                 DirFsInfoQueries'[i] = DirFsInfoQueries'[j] => i = j
          /\ Range(DirFsInfoQueries') =
                 IF op' = "ListPodCPUAndMemoryStats" THEN {}
                 ELSE MountpointsOfFolded
          /\ op' = "ListPodStats again" =>
                 DirFsInfoQueries' = DirFsInfoQueries]_vars

\* Two records carry the identifier of a filesystem whose lookup fails; the
\* pass queried it once, and so did the pass before
C24_Witness ==
    /\ op = "ListPodStats again"
    /\ ~ret.panic
    /\ Len(arg.Stats) = 2
    /\ \E m \in Mountpoints :
           /\ arg.DirFsInfo[m] = Nil
           /\ \A i \in 1..2 :
                  /\ ResolvedSandbox(arg.Stats[i]) # {}
                  /\ Deref(arg.Stats[i]).WritableLayer # Nil
                  /\ Deref(Deref(arg.Stats[i]).WritableLayer).FsId =
                         Ptr([Mountpoint |-> m])
           /\ DirFsInfoQueries = <<m>>


\* A pass that makes the stats of the root filesystems ran and returned
FsRan ==
    /\ op \in {"ListPodStats", "ListPodStatsAndUpdateCPUNanoCoreUsage",
               "ListPodStats again"}
    /\ ~ret.panic

\* The record carries the identifier of a filesystem whose lookup by
\* mountpoint fails
LookupFails(st) ==
    /\ Deref(st).WritableLayer # Nil
    /\ Deref(Deref(st).WritableLayer).FsId # Nil
    /\ LET m == Deref(Deref(Deref(st).WritableLayer).FsId).Mountpoint
       IN  m \in DOMAIN arg.DirFsInfo => arg.DirFsInfo[m] = Nil

\* C25: when GetDirFsInfo fails for the mountpoint of a container's
\* writable layer, the pass still returns a snapshot and no error, the
\* snapshot has the ContainerStats of that container, and the capacity, the
\* available bytes, the inodes and the free inodes of its Rootfs are absent
\* while the used bytes and used inodes of the layer are reported.
C25_FailedFilesystemLookupIsNotFatal ==
    FsRan =>
        /\ ret.err = Nil
        /\ ret.result # Nil
        /\ \A i \in 1..Len(arg.Stats) :
               ResolvedSandbox(arg.Stats[i]) # {} =>
                   \E ps \in Result :
                       \E s \in SandboxOf(ps) : i \in ResolvingTo(s)
        /\ \A ps \in Result :
               /\ Len(ps.Containers) = Len(RecordsOf(ps))
               /\ \A m \in Made(ps) :
                      LookupFails(m[2]) =>
                          /\ m[1].Rootfs # Nil
                          /\ Deref(m[1].Rootfs).CapacityBytes = Nil
                          /\ Deref(m[1].Rootfs).AvailableBytes = Nil
                          /\ Deref(m[1].Rootfs).Inodes = Nil
                          /\ Deref(m[1].Rootfs).InodesFree = Nil
                          /\ Deref(m[1].Rootfs).UsedBytes =
                                 Deref(Deref(m[2]).WritableLayer).UsedBytes
                          /\ Deref(m[1].Rootfs).InodesUsed =
                                 Deref(Deref(m[2]).WritableLayer).InodesUsed

\* The lookup failed for the filesystem of c1 and succeeded for that of c2:
\* the snapshot has both, the Rootfs of c1 without a capacity and that of
\* c2 with one
C25_Witness ==
    /\ FsRan
    /\ op = "ListPodStats"
    /\ arg.Stats = <<FsRecord("c1", "/data"),
                     FsRecord("c2", "/var/lib/containerd")>>
    /\ arg.DirFsInfo["/data"] = Nil
    /\ arg.DirFsInfo["/var/lib/containerd"] # Nil
    /\ ret.err = Nil
    /\ \E ps \in Result :
           /\ Len(ps.Containers) = 2
           /\ Deref(ps.Containers[1].Rootfs).CapacityBytes = Nil
           /\ Deref(ps.Containers[1].Rootfs).UsedBytes = Ptr(7)
           /\ Deref(ps.Containers[2].Rootfs).CapacityBytes = Ptr(100)

-----------------------------------------------------------------------------
(* SpecFetch: one pass whose upstream fetches and filesystem lookups may   *)
(* fail, over at most one listed record.                                   *)

\* What the upstream services answer: any of the fetches fail
FetchEnvs ==
    {[failing |-> failing, Items |-> FoldSandboxes,
      Containers |-> FoldContainers, Stats |-> stats,
      Infos |-> FoldInfos(FALSE, FALSE, "none"), DirFsInfo |-> answers] :
        failing \in SUBSET Range(listPodStatsFetches),
        stats \in {<<>>} \cup {<<st>> : st \in FsRecords},
        answers \in FsAnswers}

InitFetch ==
    /\ NoTasks
    /\ NoCronjobs
    /\ cpuUsageCache \in FoldCaches
    /\ now \in FoldTimes
    /\ op = "listed"
    /\ arg \in FetchEnvs
    /\ pre = cpuUsageCache
    /\ ret = NoPassRet
    /\ fetched = <<>>
    /\ mutex = Unlocked
    /\ pc = NoCallers

SpecFetch == InitFetch /\ [][NextFold]_vars

\* A pass ran and ended
FetchRan ==
    op \in {"ListPodStats", "ListPodStatsAndUpdateCPUNanoCoreUsage",
            "ListPodCPUAndMemoryStats", "ListPodStats again"}

\* The listings of the containers, of the pod sandboxes, of the stats of
\* the containers and of the infos of the accounting subsystem
FourListings ==
    {"ListContainers", "ListPodSandbox", "ListContainerStats",
     "getCadvisorContainerInfo"}

\* The upstream fetches of the pass that ran
FetchesOfPass ==
    Range(fetchesOf(IF op = "ListPodStats again" THEN "ListPodStats" ELSE op))

\* C26, as stated: a pass returns an error only when one of the four
\* listings fails, and a snapshot and no error whenever the four succeed,
\* also when the query of the root filesystem's info fails.
C26_ErrorOnlyWhenOneOfFourListingsFails ==
    FetchRan =>
        /\ ret.err # Nil => arg.failing \cap FourListings # {}
        /\ arg.failing \cap FourListings = {} =>
               ret.err = Nil /\ ret.result # Nil

\* C26, amended: a pass returns an error, and no snapshot, exactly when one
\* of its own upstream fetches fails: for listPodStats the query of the root
\* filesystem's info, the four listings and the listing of the network
\* stats, for ListPodCPUAndMemoryStats the four listings.  When they all
\* succeed it returns a snapshot and no error, also when a filesystem lookup
\* by mountpoint fails.
C26_ErrorExactlyWhenAFetchOfThePassFails ==
    FetchRan =>
        /\ ret.err # Nil <=> arg.failing \cap FetchesOfPass # {}
        /\ ret.err # Nil => ret.result = Nil
        /\ ret.err = Nil => ret.result # Nil /\ ~ret.panic

\* The query of the root filesystem's info failed and the four listings
\* succeeded: ListPodStats returned an error and no snapshot
C26_Witness ==
    /\ op = "ListPodStats"
    /\ arg.failing = {"RootFsInfo"}
    /\ ret.err # Nil
    /\ ret.result = Nil
    /\ fetched = <<"RootFsInfo">>

\* Every fetch succeeded and the lookup of the filesystem of the listed
\* record failed: ListPodStats returned a snapshot and no error
C26_WitnessOfFailedLookup ==
    /\ op = "ListPodStats"
    /\ arg.failing = {}
    /\ arg.Stats = <<FsRecord("c1", "/data")>>
    /\ arg.DirFsInfo["/data"] = Nil
    /\ ret.err = Nil
    /\ ret.result # Nil
    /\ Len(Deref(ret.result)) = 1

-----------------------------------------------------------------------------
(* SpecAtomic: getAndUpdateContainerUsageNanoCores statement by statement, *)
(* called concurrently with itself, with getContainerUsageNanoCores and    *)
(* with cleanupOutdatedCaches.  A caller that holds the lock in            *)
(* getAndUpdateContainerUsageNanoCores is at "update" before              *)
(* "cached, ok := p.cpuUsageCache[id]" and at "store" after it.            *)

\* The callers of SpecAtomic
AtomicCallers == {"t1", "t2"}

\* The samples handed to the methods: of c1, taken at time 0 or at
\* SampleInterval, with a cumulative counter
AtomicStats ==
    {st \in StatsAt(SampleInterval) :
        /\ Deref(Deref(st).Attributes).Id = "c1"
        /\ Deref(Deref(st).Cpu).UsageCoreNanoSeconds # Nil}

InitAtomic ==
    /\ NoTasks
    /\ NoCronjobs
    /\ cpuUsageCache = EmptyCache
    /\ now \in FoldTimes
    /\ op = "init"
    /\ arg = Nil
    /\ pre = EmptyCache
    /\ ret = NoRet
    /\ fetched = <<>>
    /\ mutex = Unlocked
    /\ pc = NoCallers

\* A caller enters a method of the rate cache
Call(th) ==
    /\ pc[th].at = "idle"
    /\ \E method \in {"getContainerUsageNanoCores",
                      "getAndUpdateContainerUsageNanoCores",
                      "cleanupOutdatedCaches"} :
           \E stats \in AtomicStats :
               pc' = [pc EXCEPT ![th] =
                         [at |-> lockTaken(method), method |-> method,
                          stats |-> IF method = "cleanupOutdatedCaches"
                                    THEN Nil ELSE stats]]
    /\ UNCHANGED <<cpuUsageCache, now, op, arg, pre, ret, fetched, mutex,
                   taskVars, cronVars>>

\* "cached, ok := p.cpuUsageCache[id]": the caller reads the entry of the
\* container, <<>> when there is none
ReadBaseline(th) ==
    /\ pc[th].at = "update"
    /\ LET id == Deref(Deref(pc[th].stats).Attributes).Id
       IN  pc' = [pc EXCEPT ![th] =
                     [at |-> "store", method |-> pc[th].method,
                      stats |-> pc[th].stats,
                      cached |-> IF id \in DOMAIN cpuUsageCache
                                 THEN <<cpuUsageCache[id]>> ELSE <<>>]]
    /\ UNCHANGED <<cpuUsageCache, now, op, arg, pre, ret, fetched, mutex,
                   taskVars, cronVars>>

\* The rest of the critical section: from the entry it read and the new
\* sample the caller stores a record without a rate, or returns the error
\* of a zero or negative interval, or stores a record with the rate
StoreRecord(th) ==
    /\ pc[th].at = "store"
    /\ LET id   == Deref(Deref(pc[th].stats).Attributes).Id
           read == IF pc[th].cached = <<>> THEN EmptyCache
                   ELSE MapSet(EmptyCache, id, pc[th].cached[1])
           r    == getAndUpdateContainerUsageNanoCores(read, pc[th].stats)
       IN  /\ cpuUsageCache' = IF r.err # Nil THEN cpuUsageCache
                               ELSE MapSet(cpuUsageCache, id, r.cache[id])
           /\ op' = "getAndUpdateContainerUsageNanoCores"
           /\ arg' = pc[th].stats
           /\ pre' = cpuUsageCache
           /\ ret' = [usage |-> r.usage, err |-> r.err, panic |-> FALSE]
    /\ pc' = [pc EXCEPT ![th] =
                 [at |-> "Unlock", method |-> pc[th].method,
                  stats |-> pc[th].stats]]
    /\ UNCHANGED <<now, fetched, mutex,
                   taskVars, cronVars>>

NextAtomic ==
    \E th \in AtomicCallers :
        \/ Call(th)
        \/ RLock(th)
        \/ Lock(th)
        \/ Lookup(th)
        \/ ReadBaseline(th)
        \/ StoreRecord(th)
        \/ Sweep(th)
        \/ RUnlock(th)
        \/ Unlock(th)

SpecAtomic == InitAtomic /\ [][NextAtomic]_vars

\* The cumulative counter and the timestamp of a sample
CounterOf(cpu) == Deref(Deref(cpu).UsageCoreNanoSeconds)

\* C27: under every interleaving of updates, lookups and sweeps, the record
\* that getAndUpdateContainerUsageNanoCores stores, and the rate it returns,
\* are those computed from the new sample and the entry that is in the cache
\* immediately before the store; a stored rate is that of a counter that did
\* not decrease over a positive interval; a lookup returns the rate that the
\* cache holds; and the cache changes only in a store or in a sweep.
C27_RateIsAnAtomicReadModifyWrite ==
    [][/\ \A th \in AtomicCallers :
              /\ pc[th].at = "store" /\ pc'[th].at = "Unlock" =>
                     LET id == Deref(Deref(pc[th].stats).Attributes).Id
                         r  == getAndUpdateContainerUsageNanoCores(
                                   cpuUsageCache, pc[th].stats)
                     IN  /\ cpuUsageCache' = r.cache
                         /\ ret'.usage = r.usage
                         /\ ret'.usage = Deref(cpuUsageCache'[id]).usageNanoCores
                                \/ ret'.err # Nil
                         /\ r.usage # Nil =>
                                /\ id \in DOMAIN cpuUsageCache
                                /\ CounterOf(Deref(pc[th].stats).Cpu) >=
                                       CounterOf(Deref(cpuUsageCache[id]).stats)
                                /\ Deref(Deref(pc[th].stats).Cpu).Timestamp >
                                       Deref(Deref(cpuUsageCache[id]).stats).Timestamp
              /\ pc[th].at = "lookup" /\ pc'[th].at = "RUnlock" =>
                     LET id == Deref(Deref(pc[th].stats).Attributes).Id
                     IN  ret'.usage =
                             IF id \in DOMAIN cpuUsageCache
                             THEN Deref(cpuUsageCache[id]).usageNanoCores
                             ELSE Nil
       /\ cpuUsageCache' # cpuUsageCache =>
              \E th \in AtomicCallers :
                  /\ pc[th].at \in {"store", "sweep"}
                  /\ pc'[th].at = "Unlock"]_vars

\* An update stored a rate, computed over SampleInterval, while another
\* update was waiting for the lock
C27_Witness ==
    /\ pc["t1"].at = "Unlock"
    /\ pc["t1"].method = "getAndUpdateContainerUsageNanoCores"
    /\ pc["t2"].at = "Lock"
    /\ pc["t2"].method = "getAndUpdateContainerUsageNanoCores"
    /\ op = "getAndUpdateContainerUsageNanoCores"
    /\ ret.usage # Nil
    /\ "c1" \in DOMAIN pre
    /\ "c1" \in DOMAIN cpuUsageCache
    /\ Deref(cpuUsageCache["c1"]).usageNanoCores = ret.usage
    /\ Deref(ret.usage) > 0

-----------------------------------------------------------------------------
(* SpecPasses: passes of the three entry points, one after the other in    *)
(* any order, and the passing of time.  The runtime lists at most one      *)
(* record, of c1: a sample of the present or of the past with or without   *)
(* a cumulative counter, or a record without CPU info.                     *)

\* The records the runtime can list at time t
SeqRecords(t) ==
    {st \in StatsAt(t) : Deref(Deref(st).Attributes).Id = "c1"}
        \cup {FoldRecord("c1", "nilCpu")}

\* What the upstream services answer at time t
SeqEnvs(t) ==
    {[failing |-> {}, Items |-> FoldSandboxes, Containers |-> FoldContainers,
      Stats |-> stats, Infos |-> FoldInfos(FALSE, FALSE, "none"),
      DirFsInfo |-> EmptyCache] :
        stats \in {<<>>} \cup {<<st>> : st \in SeqRecords(t)}}

\* The pass of an entry point
passOf(entry, cache, env, t) ==
    IF entry = "ListPodStats" THEN ListPodStats(cache, env, t)
    ELSE IF entry = "ListPodStatsAndUpdateCPUNanoCoreUsage"
    THEN ListPodStatsAndUpdateCPUNanoCoreUsage(cache, env, t)
    ELSE ListPodCPUAndMemoryStats(cache, env, t)

DoPass(entry) ==
    \E env \in SeqEnvs(now) :
        \E r \in passOf(entry, cpuUsageCache, env, now) :
            /\ cpuUsageCache' = r.cache
            /\ op' = entry
            /\ arg' = env
            /\ pre' = cpuUsageCache
            /\ ret' = [result |-> r.result, err |-> r.err, panic |-> r.panic]
            /\ fetched' = r.fetched
            /\ UNCHANGED <<now, mutex, pc,
                           taskVars, cronVars>>

NextPasses == (\E entry \in EntryPoints : DoPass(entry)) \/ PassTick

SpecPasses == Init /\ [][NextPasses]_vars

-----------------------------------------------------------------------------
(* SpecPair: one pass over containers that run or have exited.  The pods   *)
(* "web" (sandbox p1, container c1) and "db" (sandbox p2, container c2)    *)
(* are ready; p3 is an earlier sandbox of "web" that is no longer ready,   *)
(* and its container c3 is still listed as running.  The runtime lists no  *)
(* container c0.                                                           *)

\* Longest list of stats of SpecPair
MaxPairRecords == 3

\* The containers the runtime lists, c1 and c2 in the given states
PairContainers(state1, state2) ==
    <<[Id |-> "c1", PodSandboxId |-> "p1",
       Labels |-> [PodName |-> "web", PodNamespace |-> "default",
                   ContainerName |-> "app"],
       State |-> state1, CreatedAt |-> 1],
      [Id |-> "c2", PodSandboxId |-> "p2",
       Labels |-> [PodName |-> "db", PodNamespace |-> "default",
                   ContainerName |-> "sidecar"],
       State |-> state2, CreatedAt |-> 2],
      [Id |-> "c3", PodSandboxId |-> "p3",
       Labels |-> [PodName |-> "web", PodNamespace |-> "default",
                   ContainerName |-> "app"],
       State |-> CONTAINER_RUNNING, CreatedAt |-> 0]>>

\* What the upstream services answer: at most MaxPairRecords records, any
\* number of them of the same container
PairEnvs ==
    {[failing |-> {}, Items |-> FoldSandboxes,
      Containers |-> PairContainers(state1, state2),
      Stats |-> stats, Infos |-> FoldInfos(FALSE, FALSE, "none"),
      DirFsInfo |-> EmptyCache] :
        state1 \in {CONTAINER_RUNNING, CONTAINER_EXITED},
        state2 \in {CONTAINER_RUNNING, CONTAINER_EXITED},
        stats \in UNION {[1..n -> {FoldRecord(id, "ok") :
                                      id \in {"c0", "c1", "c2", "c3"}}] :
                            n \in 0..MaxPairRecords}}

InitPair ==
    /\ NoTasks
    /\ NoCronjobs
    /\ cpuUsageCache = EmptyCache
    /\ now = SampleInterval
    /\ op = "listed"
    /\ arg \in PairEnvs
    /\ pre = EmptyCache
    /\ ret = NoPassRet
    /\ fetched = <<>>
    /\ mutex = Unlocked
    /\ pc = NoCallers

SpecPair == InitPair /\ [][NextFold]_vars

\* The listed containers in RUNNING state that a record names, as a set
RunningOf(st) ==
    {c \in Range(arg.Containers) :
        /\ c.Id = Deref(Deref(st).Attributes).Id
        /\ c.State = CONTAINER_RUNNING}

\* The positions in the listed stats of the records whose container is in
\* RUNNING state and in sandbox s
RunningIn(s) ==
    {i \in 1..Len(arg.Stats) :
        \E c \in RunningOf(arg.Stats[i]) : c.PodSandboxId = s.Id}

\* The ContainerStats is made of the record and of its container
StemsFrom(cs, st) ==
    /\ cs.Name = Deref(Deref(Deref(st).Attributes).Metadata).Name
    /\ \E c \in RunningOf(st) : cs.StartTime = NewTime(c.CreatedAt)
    /\ Deref(cs.CPU).UsageCoreNanoSeconds = Deref(Deref(st).Cpu).UsageCoreNanoSeconds

\* C29: in a returned snapshot, every PodStats is that of one sandbox that
\* pod dedup retained, no two PodStats are of the same sandbox, and the
\* Containers of a PodStats are, one for one and in their order, the
\* ContainerStats of the listed records whose container is in RUNNING state
\* and names that sandbox: every ContainerStats stems from exactly one
\* record, and a record gives at most one ContainerStats.
C29_ContainerStatsPairWithRunningRecords ==
    (FetchRan /\ ~ret.panic) =>
        /\ ret.result # Nil
        /\ \A ps \in Result :
               /\ Cardinality(SandboxOf(ps)) = 1
               /\ \A s \in SandboxOf(ps) :
                      LET from == AtPositions(arg.Stats, RunningIn(s))
                      IN  /\ Len(ps.Containers) = Len(from)
                          /\ Len(from) > 0
                          /\ \A k \in 1..Len(from) :
                                 StemsFrom(ps.Containers[k], from[k])
        /\ \A i, j \in 1..Len(Deref(ret.result)) :
               SandboxOf(Deref(ret.result)[i]) = SandboxOf(Deref(ret.result)[j])
                   => i = j
        /\ \A s \in RetainedSandboxes :
               RunningIn(s) # {} => \E ps \in Result : s \in SandboxOf(ps)

\* The records of c1 and c2 alternate, c2 has exited and a record names c3,
\* whose sandbox is not retained: the snapshot has one PodStats, that of
\* "web", with the two ContainerStats of the records of c1
C29_Witness ==
    /\ op = "ListPodStats"
    /\ ~ret.panic
    /\ arg.Containers = PairContainers(CONTAINER_RUNNING, CONTAINER_EXITED)
    /\ arg.Stats = <<FoldRecord("c1", "ok"), FoldRecord("c2", "ok"),
                     FoldRecord("c1", "ok")>>
    /\ Len(Deref(ret.result)) = 1
    /\ Deref(ret.result)[1].PodRef.Name = "web"
    /\ Len(Deref(ret.result)[1].Containers) = 2

\* Both containers run and their records alternate: the snapshot has the
\* PodStats of "web" and that of "db"
C29_WitnessOfTwoPods ==
    /\ op = "ListPodStats"
    /\ ~ret.panic
    /\ arg.Containers = PairContainers(CONTAINER_RUNNING, CONTAINER_RUNNING)
    /\ arg.Stats = <<FoldRecord("c1", "ok"), FoldRecord("c2", "ok"),
                     FoldRecord("c3", "ok")>>
    /\ Len(Deref(ret.result)) = 2


\* A read-only pass ran
ReadOnlyRan == op \in {"ListPodStats", "ListPodCPUAndMemoryStats"}

\* The samples of c1 that a later authoritative pass can be handed
LaterSamples ==
    {st \in StatsAt(Max(Times)) : Deref(Deref(st).Attributes).Id = "c1"}

\* C30: ListPodStats and ListPodCPUAndMemoryStats insert no cache entry and
\* change neither the sample nor the rate of an entry; the entries they
\* remove are those the sweep evicts, whose sample is more than ten minutes
\* old; the rate they report is the one the cache held.  Hence the rate that
\* the authoritative poller computes from any later sample is the one it
\* would have computed had the read-only pass not run, or none when the
\* entry was evicted.
C30_ReadOnlyPassesOnlyEvict ==
    ReadOnlyRan =>
        /\ DOMAIN cpuUsageCache \subseteq DOMAIN pre
        /\ \A id \in DOMAIN cpuUsageCache : cpuUsageCache[id] = pre[id]
        /\ DOMAIN pre \ DOMAIN cpuUsageCache \subseteq OutdatedKeys(pre)
        /\ \A cs \in ReturnedContainers :
               Deref(arg.Stats[1]).Cpu # Nil =>
                   Deref(cs.CPU).UsageNanoCores =
                       IF "c1" \in DOMAIN pre
                       THEN Deref(pre["c1"]).usageNanoCores ELSE Nil
        /\ \A st \in LaterSamples :
               getAndUpdateContainerUsageNanoCores(cpuUsageCache, st).usage
                   \in {getAndUpdateContainerUsageNanoCores(pre, st).usage, Nil}

\* ListPodCPUAndMemoryStats was handed a sample of c1 that the cache did
\* not hold: it reported the cached rate and left the entry as it was
C30_Witness ==
    /\ op = "ListPodCPUAndMemoryStats"
    /\ ~ret.panic
    /\ Len(arg.Stats) = 1
    /\ Deref(arg.Stats[1]).Cpu # Nil
    /\ Deref(Deref(arg.Stats[1]).Cpu).UsageCoreNanoSeconds # Nil
    /\ "c1" \in DOMAIN pre
    /\ Deref(pre["c1"]).stats # Deref(arg.Stats[1]).Cpu
    /\ Deref(pre["c1"]).usageNanoCores # Nil
    /\ cpuUsageCache = pre
    /\ \E cs \in ReturnedContainers :
           Deref(cs.CPU).UsageNanoCores = Deref(pre["c1"]).usageNanoCores

\* ListPodStats evicted the entry of c1
C30_WitnessOfEviction ==
    /\ op = "ListPodStats"
    /\ "c1" \in DOMAIN pre
    /\ cpuUsageCache = EmptyCache


\* C31: when a pass of ListPodStats, ListPodStatsAndUpdateCPUNanoCoreUsage
\* or ListPodCPUAndMemoryStats returns an error, the rate cache is the cache
\* of the start of the pass: no entry is inserted, replaced or evicted, the
\* pass made no filesystem lookup and what it issued is a prefix of its
\* fetches.
C31_CacheUnchangedWhenAPassFails ==
    (FetchRan /\ ret.err # Nil) =>
        /\ cpuUsageCache = pre
        /\ DirFsInfoQueries = <<>>
        /\ \E k \in 1..Len(fetched) :
               /\ fetched[k] \in arg.failing
               /\ k = Len(fetched)
               /\ \A j \in 1..(k - 1) : fetched[j] \notin arg.failing

\* The listing of the container stats failed in an authoritative pass, more
\* than ten minutes after the sample that the cache holds of c1: the entry
\* is still there
C31_Witness ==
    /\ op = "ListPodStatsAndUpdateCPUNanoCoreUsage"
    /\ ret.err = Ptr("ListContainerStats")
    /\ arg.Stats # <<>>
    /\ "c1" \in DOMAIN pre
    /\ OutdatedKeys(pre) = {"c1"}
    /\ cpuUsageCache = pre

-----------------------------------------------------------------------------
(* GuestSaveGuestImageTask.  The task framework (taskman) is outside the   *)
(* program: SetStage, SetStageComplete and SetStageFailed are calls that   *)
(* the model records in their order, with the stage that SetStage names    *)
(* and whether and how often the task was marked complete or failed; the   *)
(* stages complete and failed are the ones that SetStageComplete and       *)
(* SetStageFailed set.  The framework calls the callback that the stage    *)
(* names, or the one with the suffix Failed.                               *)

VM_READY == "ready"

VM_SAVE_DISK_FAILED == "save_disk_failed"

\* The status of a guest whose disks are being saved
VM_START_SAVE_DISK == "start_save_disk"

TASK_STAGE_COMPLETE == "complete"

TASK_STAGE_FAILED == "failed"

\* self.SetStage(stage, nil)
SetStage(task, stage) ==
    [task EXCEPT !.stage = stage, !.calls = Append(@, <<"SetStage", stage>>)]

\* self.SetStageComplete(ctx, nil)
SetStageComplete(task) ==
    [task EXCEPT !.stage = TASK_STAGE_COMPLETE, !.complete = @ + 1,
                 !.calls = Append(@, <<"SetStageComplete">>)]

\* self.SetStageFailed(ctx, reason)
SetStageFailed(task) ==
    [task EXCEPT !.stage = TASK_STAGE_FAILED, !.failed = @ + 1,
                 !.calls = Append(@, <<"SetStageFailed">>)]

\* guest.SetStatus(ctx, self.UserCred, status, reason)
SetStatus(g, status) == [g EXCEPT !.status = status]

\* taskSuc, on st = [task, guest]
taskSuc(st) == [st EXCEPT !.task = SetStageComplete(@)]

\* taskFailed
taskFailed(st) ==
    [task  |-> SetStageFailed(
                   [st.task EXCEPT !.calls =
                       @ \o <<<<"SetStatus", VM_SAVE_DISK_FAILED>>,
                              <<"LogEvent">>, <<"AddActionLogWithStartable">>>>]),
     guest |-> SetStatus(st.guest, VM_SAVE_DISK_FAILED)]

\* "if err := disk.StartDiskSaveTask(...); err != nil { self.taskFailed(...) }"
\* of OnInit: fails is whether the call returns an error
startDiskSaveTask(st, disk, fails) ==
    IF fails
    THEN taskFailed(st)
    ELSE [st EXCEPT !.task.subtasks = Append(@, disk),
                    !.task.calls = Append(@, <<"StartDiskSaveTask", disk>>)]

\* An OnSaveRootImageComplete without the returns after taskFailed
OnSaveRootImageCompleteFallingThrough(st, err, subTasksCnt) ==
    LET checked == IF err \/ subTasksCnt > 0 THEN taskFailed(st) ELSE st
    IN  IF checked.task.params.auto_start
        THEN [task  |-> [SetStage(checked.task, "OnStartServerComplete") EXCEPT
                            !.calls = Append(@, <<"StartGueststartTask">>)],
              guest |-> [checked.guest EXCEPT !.starts = @ + 1]]
        ELSE taskSuc([checked EXCEPT
                         !.guest = SetStatus(@, VM_READY),
                         !.task.calls = Append(@, <<"SetStatus", VM_READY>>)])

\* OnSaveRootImageComplete: err and subTasksCnt are what GetSubtasksCount
\* returns for the failed subtasks
OnSaveRootImageComplete(st, err, subTasksCnt) ==
    IF err THEN taskFailed(st)
    ELSE IF subTasksCnt > 0 THEN taskFailed(st)
    ELSE IF st.task.params.auto_start
    THEN [task  |-> [SetStage(st.task, "OnStartServerComplete") EXCEPT
                        !.calls = Append(@, <<"StartGueststartTask">>)],
          guest |-> [st.guest EXCEPT !.starts = @ + 1]]
    ELSE taskSuc([st EXCEPT
                     !.guest = SetStatus(@, VM_READY),
                     !.task.calls = Append(@, <<"SetStatus", VM_READY>>)])

OnSaveRootImageCompleteFailed(st) == taskFailed(st)

OnStartServerComplete(st) == taskSuc(st)

\* A failed start of the server fails the task
OnStartServerCompleteFailedFailing(st) == taskFailed(st)

\* "even if start server failed, the task that save guest image is
\* successful"
OnStartServerCompleteFailed(st) == taskSuc(st)

\* Most data disks of a guest
MaxDataDisks == 2

\* Most failed subtasks that GetSubtasksCount counts
MaxFailedSubtasks == 1

\* The disks of a guest with n data disks, the root disk last
DisksOf(n) == [i \in 1..(n + 1) |-> IF i <= n THEN <<"data", i>> ELSE <<"root">>]

\* The task is created for a guest with some data disks, with or without
\* auto_start; failing are the disks whose StartDiskSaveTask returns an error
InitSave ==
    /\ cpuUsageCache = EmptyCache
    /\ now = 0
    /\ op = "init"
    /\ arg = Nil
    /\ pre = EmptyCache
    /\ ret = NoPassRet
    /\ fetched = <<>>
    /\ mutex = Unlocked
    /\ pc = NoCallers
    /\ NoCronjobs
    /\ diskTask = Nil
    /\ guest = [status |-> VM_START_SAVE_DISK, starts |-> 0]
    /\ \E n \in 0..MaxDataDisks, auto_start \in BOOLEAN :
           \E failing \in SUBSET Range(DisksOf(n)) :
               saveTask = [stage |-> "on_init", at |-> "OnInit",
                           params |-> [auto_start |-> auto_start],
                           disks |-> DisksOf(n), failing |-> failing,
                           index |-> 1, subtasks |-> <<>>, calls |-> <<>>,
                           complete |-> 0, failed |-> 0,
                           callback |-> "none",
                           counted |-> Nil]

\* What a handler leaves of the task and of the guest
Leaves(st) ==
    /\ saveTask' = st.task
    /\ guest' = st.guest

\* OnInit up to the loop over the data disks
OnInit ==
    /\ saveTask.at = "OnInit"
    /\ saveTask' = [SetStage(saveTask, "OnSaveRootImageComplete") EXCEPT
                       !.at = "disks", !.callback = "OnInit"]
    /\ UNCHANGED <<guest, diskTask, statsVars, cronVars>>

\* One iteration of the loop over disks.Data, or, after the loop, the save
\* of the root disk, after which OnInit returns
SaveDisk ==
    /\ saveTask.at = "disks"
    /\ LET i    == saveTask.index
           disk == saveTask.disks[i]
           st   == startDiskSaveTask([task |-> saveTask, guest |-> guest],
                                     disk, disk \in saveTask.failing)
       IN  Leaves([st EXCEPT !.task.index = i + 1,
                             !.task.at = IF i = Len(saveTask.disks)
                                         THEN "returned" ELSE "disks"])
    /\ UNCHANGED <<diskTask, statsVars, cronVars>>

\* The framework may call a callback of the stage
Awaits(stage) ==
    /\ saveTask.at = "returned"
    /\ saveTask.stage = stage

\* The task and the guest as the callback name finds them
Called(name) ==
    [task |-> [saveTask EXCEPT !.callback = name], guest |-> guest]

DoOnSaveRootImageComplete ==
    /\ Awaits("OnSaveRootImageComplete")
    /\ \E err \in BOOLEAN, subTasksCnt \in 0..MaxFailedSubtasks :
           Leaves(OnSaveRootImageComplete(
                      [Called("OnSaveRootImageComplete") EXCEPT
                          !.task.counted = [err |-> err, cnt |-> subTasksCnt]],
                      err, subTasksCnt))
    /\ UNCHANGED <<diskTask, statsVars, cronVars>>

DoOnSaveRootImageCompleteFailed ==
    /\ Awaits("OnSaveRootImageComplete")
    /\ Leaves(OnSaveRootImageCompleteFailed(
                  Called("OnSaveRootImageCompleteFailed")))
    /\ UNCHANGED <<diskTask, statsVars, cronVars>>

DoOnStartServerComplete ==
    /\ Awaits("OnStartServerComplete")
    /\ Leaves(OnStartServerComplete(Called("OnStartServerComplete")))
    /\ UNCHANGED <<diskTask, statsVars, cronVars>>

DoOnStartServerCompleteFailed ==
    /\ Awaits("OnStartServerComplete")
    /\ Leaves(OnStartServerCompleteFailed(
                  Called("OnStartServerCompleteFailed")))
    /\ UNCHANGED <<diskTask, statsVars, cronVars>>

NextSave ==
    \/ OnInit
    \/ SaveDisk
    \/ DoOnSaveRootImageComplete
    \/ DoOnSaveRootImageCompleteFailed
    \/ DoOnStartServerComplete
    \/ DoOnStartServerCompleteFailed

SpecSave == InitSave /\ [][NextSave]_vars


\* A step of the callback name
StepOf(name) == saveTask'.callback = name /\ saveTask' # saveTask

\* C32: a callback called from the stage OnStartServerComplete, the one of
\* the success and the one of the failure of the start alike, marks the task
\* complete, once, and neither marks it failed nor changes the status of the
\* guest, so that the status is not set to VM_SAVE_DISK_FAILED
C32_StartOutcomeAlwaysCompletesTheTask ==
    [][(saveTask # Nil /\ saveTask.stage = "OnStartServerComplete"
            /\ saveTask' # saveTask)
       => /\ StepOf("OnStartServerComplete") \/ StepOf("OnStartServerCompleteFailed")
          /\ saveTask'.complete = saveTask.complete + 1
          /\ saveTask'.failed = saveTask.failed
          /\ saveTask'.calls = Append(saveTask.calls, <<"SetStageComplete">>)
          /\ saveTask'.stage = TASK_STAGE_COMPLETE
          /\ guest' = guest]_vars

\* The start of the server failed and the task is complete, not failed
C32_Witness ==
    /\ saveTask # Nil
    /\ saveTask.callback = "OnStartServerCompleteFailed"
    /\ saveTask.complete = 1
    /\ saveTask.failed = 0
    /\ guest.status # VM_SAVE_DISK_FAILED

\* The start of the server succeeded and the task is complete
C32_WitnessOfSuccess ==
    /\ saveTask # Nil
    /\ saveTask.callback = "OnStartServerComplete"
    /\ saveTask.complete = 1


\* The calls that a step adds to the calls of the task
NewCalls ==
    SubSeq(saveTask'.calls, Len(saveTask.calls) + 1, Len(saveTask'.calls))

\* C33: OnSaveRootImageComplete, when the count of the failed subtasks
\* returns an error or is positive, sets the guest to VM_SAVE_DISK_FAILED and
\* marks the task failed, and in that call starts no server, sets no
\* VM_READY and marks nothing complete; otherwise with auto_start it sets the
\* stage OnStartServerComplete and starts the guest start task, and without
\* auto_start it sets the guest to VM_READY and marks the task complete
C33_RootImageCompleteBranches ==
    [][(saveTask # Nil /\ StepOf("OnSaveRootImageComplete"))
       => LET c == saveTask'.counted
          IN  IF c.err \/ c.cnt > 0
              THEN /\ NewCalls = <<<<"SetStatus", VM_SAVE_DISK_FAILED>>,
                                   <<"LogEvent">>,
                                   <<"AddActionLogWithStartable">>,
                                   <<"SetStageFailed">>>>
                   /\ guest' = [guest EXCEPT !.status = VM_SAVE_DISK_FAILED]
                   /\ saveTask'.failed = saveTask.failed + 1
                   /\ saveTask'.complete = saveTask.complete
                   /\ saveTask'.stage = TASK_STAGE_FAILED
              ELSE IF saveTask.params.auto_start
              THEN /\ NewCalls = <<<<"SetStage", "OnStartServerComplete">>,
                                   <<"StartGueststartTask">>>>
                   /\ saveTask'.stage = "OnStartServerComplete"
                   /\ guest' = [guest EXCEPT !.starts = @ + 1]
                   /\ saveTask'.complete = saveTask.complete
                   /\ saveTask'.failed = saveTask.failed
              ELSE /\ NewCalls = <<<<"SetStatus", VM_READY>>,
                                   <<"SetStageComplete">>>>
                   /\ guest' = [guest EXCEPT !.status = VM_READY]
                   /\ saveTask'.complete = saveTask.complete + 1
                   /\ saveTask'.failed = saveTask.failed
                   /\ saveTask'.stage = TASK_STAGE_COMPLETE]_vars

\* OnSaveRootImageComplete counted a failed subtask of a task with
\* auto_start and failed the task, which started nothing
C33_Witness ==
    /\ saveTask # Nil
    /\ saveTask.callback = "OnSaveRootImageComplete"
    /\ ~saveTask.counted.err
    /\ saveTask.counted.cnt > 0
    /\ saveTask.params.auto_start
    /\ saveTask.failed = 1
    /\ guest.starts = 0

\* OnSaveRootImageComplete counted no failed subtask and started the server
C33_WitnessOfStart ==
    /\ saveTask # Nil
    /\ saveTask.callback = "OnSaveRootImageComplete"
    /\ saveTask.stage = "OnStartServerComplete"
    /\ guest.starts = 1

\* OnSaveRootImageComplete counted no failed subtask and, without
\* auto_start, set the guest ready and completed the task
C33_WitnessOfReady ==
    /\ saveTask # Nil
    /\ saveTask.callback = "OnSaveRootImageComplete"
    /\ guest.status = VM_READY
    /\ saveTask.complete = 1


\* The task was marked failed
Failed == saveTask # Nil /\ saveTask.failed > 0

\* C34: once the task is marked failed, no further disk save subtask is
\* started for it, SetStageFailed is not called again, and nothing marks
\* the task complete
C34_FailureIsTerminal ==
    [][Failed => /\ saveTask'.subtasks = saveTask.subtasks
                 /\ saveTask'.failed = saveTask.failed
                 /\ saveTask'.complete = saveTask.complete]_vars

\* C34, of the calls of SetStageFailed alone: it is called at most once
C34_SetStageFailedAtMostOnce == saveTask # Nil => saveTask.failed <= 1

\* C34, of the completion alone: a task marked failed is not marked complete
C34_FailedTaskIsNotCompleted ==
    saveTask # Nil => ~(saveTask.failed > 0 /\ saveTask.complete > 0)

\* A disk save subtask was started after the task was marked failed
C34_SubtaskStartedAfterFailure ==
    /\ saveTask # Nil
    /\ \E i, j \in DOMAIN saveTask.calls :
           /\ i < j
           /\ saveTask.calls[i] = <<"SetStageFailed">>
           /\ saveTask.calls[j][1] = "StartDiskSaveTask"

-----------------------------------------------------------------------------
(* SDiskBaseTask.SetStageFailed.  The quota of the task's pending usage is *)
(* a record of two of the counters of models.SQuota; quotas and taskman    *)
(* are outside the program and the calls made on them are recorded.        *)

\* Most of a counter of a pending usage
MaxPending == 3

\* models.SQuota{}
EmptyQuota == [Count |-> 0, Storage |-> 0]

Quotas == [Count : 0..MaxPending, Storage : 0..MaxPending]

\* pendingUsage.IsEmpty()
IsEmpty(quota) == quota.Count = 0 /\ quota.Storage = 0

\* self.GetPendingUsage(&pendingUsage, 0): the usage stored with the task,
\* or an error that leaves pendingUsage as it was
GetPendingUsage(task) ==
    [err          |-> ~task.stored.readable,
     pendingUsage |-> IF task.stored.readable THEN task.stored.usage
                                              ELSE EmptyQuota]

\* Cancels whatever could be read
cancelsWhenReadable(err, pendingUsage) == ~err

\* "err == nil && !pendingUsage.IsEmpty()"
cancels(err, pendingUsage) == ~err /\ ~IsEmpty(pendingUsage)

\* quotas.CancelPendingUsage(ctx, self.UserCred, &pendingUsage,
\* &pendingUsage, false)
CancelPendingUsage(task, pendingUsage) ==
    [task EXCEPT !.calls = Append(@, <<"CancelPendingUsage", pendingUsage>>)]

\* SetStageFailed is called on a disk task whose pending usage is any quota,
\* readable or not
InitDiskTask ==
    /\ cpuUsageCache = EmptyCache
    /\ now = 0
    /\ op = "init"
    /\ arg = Nil
    /\ pre = EmptyCache
    /\ ret = NoPassRet
    /\ fetched = <<>>
    /\ mutex = Unlocked
    /\ pc = NoCallers
    /\ NoCronjobs
    /\ saveTask = Nil
    /\ guest = Nil
    /\ \E usage \in Quotas, readable \in BOOLEAN :
           diskTask = [stage |-> "on_init", at |-> "SetStageFailed",
                       stored |-> [usage |-> usage, readable |-> readable],
                       local |-> Nil, calls |-> <<>>,
                       complete |-> 0, failed |-> 0]

\* finalReleasePendingUsage up to the read of the pending usage
ReadPendingUsage ==
    /\ diskTask.at = "SetStageFailed"
    /\ diskTask' = [diskTask EXCEPT !.at = "read",
                                    !.local = GetPendingUsage(diskTask)]
    /\ UNCHANGED <<saveTask, guest, statsVars, cronVars>>

\* The rest of finalReleasePendingUsage
ReleasePendingUsage ==
    /\ diskTask.at = "read"
    /\ LET l == diskTask.local
       IN  diskTask' = [(IF cancels(l.err, l.pendingUsage)
                         THEN CancelPendingUsage(diskTask, l.pendingUsage)
                         ELSE diskTask) EXCEPT !.at = "released"]
    /\ UNCHANGED <<saveTask, guest, statsVars, cronVars>>

\* self.STask.SetStageFailed(ctx, reason)
STaskSetStageFailed ==
    /\ diskTask.at = "released"
    /\ diskTask' = [SetStageFailed(diskTask) EXCEPT !.at = "done"]
    /\ UNCHANGED <<saveTask, guest, statsVars, cronVars>>

NextDiskTask ==
    \/ ReadPendingUsage
    \/ ReleasePendingUsage
    \/ STaskSetStageFailed

SpecDiskTask == InitDiskTask /\ [][NextDiskTask]_vars

\* The places of the calls of fn among the calls of the disk task
CallsOf(fn) == {i \in DOMAIN diskTask.calls : diskTask.calls[i][1] = fn}

\* C35: SetStageFailed of a disk task cancels the pending usage exactly
\* once, and before STask.SetStageFailed, when the usage can be read and is
\* not empty; it cancels nothing when the usage cannot be read or is empty;
\* and it marks the task failed, once, in every case
C35_PendingUsageReleasedBeforeFailure ==
    diskTask # Nil =>
        LET stored == diskTask.stored
            due    == stored.readable /\ ~IsEmpty(stored.usage)
        IN  /\ \A i \in CallsOf("CancelPendingUsage") :
                   /\ due
                   /\ diskTask.calls[i] = <<"CancelPendingUsage", stored.usage>>
                   /\ \A j \in CallsOf("SetStageFailed") : i < j
            /\ Cardinality(CallsOf("CancelPendingUsage")) <= 1
            /\ CallsOf("SetStageFailed") # {}
                   => (due => CallsOf("CancelPendingUsage") # {})
            /\ diskTask.at = "done"
                   => /\ Cardinality(CallsOf("SetStageFailed")) = 1
                      /\ diskTask.failed = 1
                      /\ diskTask.stage = TASK_STAGE_FAILED

\* The task is marked failed after its pending usage was cancelled
C35_Witness ==
    /\ diskTask # Nil
    /\ diskTask.at = "done"
    /\ diskTask.stored.usage.Storage > 0
    /\ diskTask.calls = <<<<"CancelPendingUsage", diskTask.stored.usage>>,
                          <<"SetStageFailed">>>>

\* The task is marked failed and nothing was cancelled, the usage being
\* unreadable
C35_WitnessOfUnreadable ==
    /\ diskTask # Nil
    /\ diskTask.at = "done"
    /\ ~diskTask.stored.readable
    /\ ~IsEmpty(diskTask.stored.usage)
    /\ diskTask.calls = <<<<"SetStageFailed">>>>

\* The task is marked failed and nothing was cancelled, the usage being empty
C35_WitnessOfEmpty ==
    /\ diskTask # Nil
    /\ diskTask.at = "done"
    /\ diskTask.stored.readable
    /\ IsEmpty(diskTask.stored.usage)
    /\ diskTask.calls = <<<<"SetStageFailed">>>>

-----------------------------------------------------------------------------
(* The devtool cronjobs.  DevToolCronManager (cronman) is outside the      *)
(* program: it is the sequence of the registrations made on it, an Add     *)
(* that succeeds appends one and Remove drops those of the name.  The      *)
(* database holds the jobs: the framework creates, updates and deletes the *)
(* row and then calls PostCreate, PostUpdate and PostDelete with the job.  *)

JobIds == {"j1", "j2"}

\* Most days of a schedule
MaxDay == 1

\* The interval of a job on an interval schedule, in seconds
IntervalSeconds == 60

\* time.Second and time.Minute: a time.Duration is counted in seconds
Second == 1

MinuteOfSeconds == 60 * Second

\* The fields of SVSCronjob, with the id of the row
Items(id) ==
    [Id : {id}, Day : 0..MaxDay, Hour : {2}, Min : {30}, Sec : {15},
     Interval : {0, IntervalSeconds}, Start : BOOLEAN, Enabled : BOOLEAN]

\* options.Options.TaskArchiveIntervalMinutes
TaskArchiveIntervalMinutes == 60

\* DevToolCronManager.AddJobAtIntervalsWithStartRun(name, interval, job,
\* startRun)
AddJobAtIntervalsWithStartRun(reg, name, interval, startRun) ==
    Append(reg, [name |-> name, schedule |-> <<"interval", interval>>,
                 startRun |-> startRun])

\* DevToolCronManager.AddJobEveryFewDays(name, day, hour, min, sec, job,
\* startRun)
AddJobEveryFewDays(reg, name, day, hour, min, sec, startRun) ==
    Append(reg, [name |-> name, schedule |-> <<"days", day, hour, min, sec>>,
                 startRun |-> startRun])

\* DevToolCronManager.Remove(name)
Remove(reg, name) == SelectSeq(reg, LAMBDA e : e.name # name)

\* Registers the job whether it is enabled or not
AddOneCronjobUnconditionally(reg, item) ==
    IF item.Interval > 0
    THEN AddJobAtIntervalsWithStartRun(reg, item.Id, item.Interval * Second,
                                       item.Start)
    ELSE AddJobEveryFewDays(reg, item.Id, item.Day, item.Hour, item.Min,
                            item.Sec, item.Start)

\* AddOneCronjob, the registrations succeeding
AddOneCronjob(reg, item) ==
    IF ~item.Enabled THEN reg
    ELSE IF item.Interval > 0
    THEN AddJobAtIntervalsWithStartRun(reg, item.Id, item.Interval * Second,
                                       item.Start)
    ELSE AddJobEveryFewDays(reg, item.Id, item.Day, item.Hour, item.Min,
                            item.Sec, item.Start)

\* DevToolCronManager after InitCronJobManager and the registration of
\* TaskCleanupJob
StartedRegistry ==
    AddJobAtIntervalsWithStartRun(<<>>, "TaskCleanupJob",
                                  TaskArchiveIntervalMinutes * MinuteOfSeconds,
                                  TRUE)

\* A row that was never created, and the row of a deleted job
Absent == [row |-> "absent"]

Deleted == [row |-> "deleted"]

Row(item) == [row |-> "exists", item |-> item]

\* Nothing but the cronjobs is running
CronOnly ==
    /\ cpuUsageCache = EmptyCache
    /\ now = 0
    /\ pre = EmptyCache
    /\ ret = NoPassRet
    /\ fetched = <<>>
    /\ mutex = Unlocked
    /\ pc = NoCallers
    /\ NoTasks

\* The service has started with no job in the database and the loader has
\* finished
InitCron ==
    /\ CronOnly
    /\ op = "init"
    /\ arg = Nil
    /\ jobs = [id \in JobIds |-> Absent]
    /\ registry = StartedRegistry
    /\ loader = [at |-> "done", items |-> <<>>, index |-> 1]

\* What the handlers of the cronjobs leave alone
CronFrame ==
    UNCHANGED <<cpuUsageCache, now, pre, ret, fetched, mutex, pc, taskVars>>

\* A job is created, with an id that no job had, and PostCreate is called
PostCreate(id) ==
    /\ jobs[id] = Absent
    /\ \E item \in Items(id) :
           /\ jobs' = [jobs EXCEPT ![id] = Row(item)]
           /\ registry' = AddOneCronjob(registry, item)
    /\ op' = "PostCreate"
    /\ arg' = id
    /\ UNCHANGED loader
    /\ CronFrame

\* A job is deleted and PostDelete is called
PostDelete(id) ==
    /\ jobs[id].row = "exists"
    /\ jobs' = [jobs EXCEPT ![id] = Deleted]
    /\ registry' = Remove(registry, id)
    /\ op' = "PostDelete"
    /\ arg' = id
    /\ UNCHANGED loader
    /\ CronFrame

\* A job is updated and PostUpdate is called
PostUpdate(id) ==
    /\ jobs[id].row = "exists"
    /\ \E item \in Items(id) :
           /\ jobs' = [jobs EXCEPT ![id] = Row(item)]
           /\ registry' = AddOneCronjob(Remove(registry, id), item)
    /\ op' = "PostUpdate"
    /\ arg' = id
    /\ UNCHANGED loader
    /\ CronFrame

NextCron ==
    \/ \E id \in JobIds : PostCreate(id)
    \/ \E id \in JobIds : PostUpdate(id)
    \/ \E id \in JobIds : PostDelete(id)

SpecCron == InitCron /\ [][NextCron]_vars

\* The registrations under the name of a job
RegistrationsOf(reg, id) == SelectSeq(reg, LAMBDA e : e.name = id)

\* The registrations under other names
OtherRegistrations(reg, id) == SelectSeq(reg, LAMBDA e : e.name # id)

\* The registration that the fields of a job ask for
RegistrationFor(item) ==
    [name     |-> item.Id,
     schedule |-> IF item.Interval > 0
                  THEN <<"interval", item.Interval>>
                  ELSE <<"days", item.Day, item.Hour, item.Min, item.Sec>>,
     startRun |-> item.Start]

\* What is registered under the name of a job for the state of its row
Tracked(row, reg, id) ==
    RegistrationsOf(reg, id) =
        IF row.row = "exists" /\ row.item.Enabled
        THEN <<RegistrationFor(row.item)>> ELSE <<>>

\* C36: after every PostCreate, PostUpdate and PostDelete a job id is
\* registered if and only if the job exists and is enabled, once, on the
\* interval schedule if Interval > 0 and on the schedule of day, hour,
\* minute and second otherwise; and PostUpdate leaves no registration of
\* the job that was there before it: what it registers is the last
\* registration, and those of other names stay as they were
C36_RegistrationTracksEnabled ==
    [][/\ \A id \in JobIds : Tracked(jobs'[id], registry', id)
       /\ OtherRegistrations(registry', arg')
              = OtherRegistrations(registry, arg')
       /\ (op' = "PostUpdate" /\ jobs'[arg'].item.Enabled)
              => registry' = OtherRegistrations(registry, arg')
                                 \o <<RegistrationFor(jobs'[arg'].item)>>]_vars

\* An enabled job was updated and is registered once, on the interval
\* schedule, beside the registration of the other job
C36_Witness ==
    /\ jobs # Nil
    /\ op = "PostUpdate"
    /\ jobs[arg].item.Enabled
    /\ jobs[arg].item.Interval > 0
    /\ RegistrationsOf(registry, arg)
           = <<[name |-> arg,
                schedule |-> <<"interval", IntervalSeconds>>,
                startRun |-> jobs[arg].item.Start]>>
    /\ Len(registry) = 3

\* A job was disabled by an update and is not registered
C36_WitnessOfDisabled ==
    /\ jobs # Nil
    /\ op = "PostUpdate"
    /\ ~jobs[arg].item.Enabled
    /\ RegistrationsOf(registry, arg) = <<>>
    /\ Len(registry) = 2

\* A job was deleted and is not registered
C36_WitnessOfDeleted ==
    /\ jobs # Nil
    /\ op = "PostDelete"
    /\ RegistrationsOf(registry, arg) = <<>>
    /\ Len(registry) = 2


\* The order in which the query returns the rows
JobOrder == <<"j1", "j2">>

\* CronjobManager.Query().Equals("enabled", true), q.All(&items)
EnabledItems(db) ==
    LET rows == SelectSeq(JobOrder, LAMBDA id : /\ db[id].row = "exists"
                                                /\ db[id].item.Enabled)
    IN  [i \in DOMAIN rows |-> db[rows[i]].item]

\* InitializeCronjobs has returned: the database holds the jobs of earlier
\* runs of the service, none is registered, and the loader goroutine is
\* about to query
InitLoader ==
    /\ CronOnly
    /\ op = "init"
    /\ arg = Nil
    /\ jobs \in [JobIds -> {Absent} \cup UNION {{Row(item) : item \in Items(id)} :
                                                   id \in JobIds}]
    /\ \A id \in JobIds : jobs[id] # Absent => jobs[id].item.Id = id
    /\ registry = StartedRegistry
    /\ loader = [at |-> "query", items |-> <<>>, index |-> 1]

\* The query of the loader goroutine
LoaderQuery ==
    /\ loader.at = "query"
    /\ LET items == EnabledItems(jobs)
       IN  loader' = [at |-> IF items = <<>> THEN "done" ELSE "range",
                      items |-> items, index |-> 1]
    /\ op' = "Query"
    /\ arg' = Nil
    /\ UNCHANGED <<jobs, registry>>
    /\ CronFrame

\* One iteration of the loop of the loader goroutine
LoaderAdd ==
    /\ loader.at = "range"
    /\ registry' = AddOneCronjob(registry, loader.items[loader.index])
    /\ loader' = [loader EXCEPT !.index = @ + 1,
                                !.at = IF loader.index = Len(loader.items)
                                       THEN "done" ELSE "range"]
    /\ op' = "AddOneCronjob"
    /\ arg' = loader.items[loader.index].Id
    /\ UNCHANGED jobs
    /\ CronFrame

NextLoader ==
    \/ LoaderQuery
    \/ LoaderAdd
    \/ \E id \in JobIds : PostUpdate(id)
    \/ \E id \in JobIds : PostDelete(id)

SpecLoader == InitLoader /\ [][NextLoader]_vars

\* C37: once the loader has finished, every registration under the name of
\* a job is that of a job that exists and is enabled, on the schedule of
\* its latest fields, so that no deleted and no disabled job is registered
\* and no schedule is stale
C37_LoaderResurrectsNothing ==
    (loader # Nil /\ loader.at = "done") =>
        \A id \in JobIds :
            \A i \in DOMAIN RegistrationsOf(registry, id) :
                /\ jobs[id].row = "exists"
                /\ jobs[id].item.Enabled
                /\ RegistrationsOf(registry, id)[i] = RegistrationFor(jobs[id].item)

\* The loader has finished and a deleted job is registered
C37_DeletedJobRegistered ==
    /\ loader # Nil
    /\ loader.at = "done"
    /\ \E id \in JobIds : /\ jobs[id] = Deleted
                          /\ RegistrationsOf(registry, id) # <<>>

\* The loader has finished and a job is registered twice, once on the
\* schedule it had before its update
C37_StaleScheduleRegistered ==
    /\ loader # Nil
    /\ loader.at = "done"
    /\ \E id \in JobIds :
           /\ jobs[id].row = "exists"
           /\ Len(RegistrationsOf(registry, id)) = 2
           /\ RegistrationsOf(registry, id)[1] = RegistrationFor(jobs[id].item)
           /\ RegistrationsOf(registry, id)[2].schedule
                  # RegistrationFor(jobs[id].item).schedule

====
